---- MODULE Spec2Model ----
(***************************************************************************)
(* Project discovery and lifecycle pipeline of the Personal OS scripts:    *)
(*   src/lifecycle-manager.py          ProjectLifecycleManager             *)
(*   src/project-discovery-service.py  ProjectDiscoveryService             *)
(* Both keep the registry document <base>/project-registry.json.           *)
(*                                                                         *)
(* Time is counted in whole days.  A directory is a record of its files    *)
(* (file name -> day of last modification) and its own mtime day.  A path  *)
(* is <<parent, name>>, the parent being "base" or one of the lifecycle    *)
(* roots below it.                                                         *)
(***************************************************************************)
EXTENDS Integers, Sequences, FiniteSets, TLC

\* ------------------------------------------------------------------ bounds
MaxEnv == 2        \* directory creations / deletions by the user during a run
Day0 == 100        \* the day the run starts on
\* The service's ticks start while fewer dashboard syncs than this are queued
MaxSync == 2

\* ------------------------------------------------------- program constants
DefaultAutoArchiveDays == 30
LargeProjectMb == 100
OneOffFileLimit == 10
DataAnalysisFileLimit == 50

\* The empty dict
EmptyDict == [k \in {} |-> k]

\* ---------------------------------------------------------------- the disk
Roots == {"active", "staging", "archive", "systems"}
Parents == {"base"} \cup Roots

\* Directory names the user may give a project.
ProjectNames == {"foo", "bar"}
Names == ProjectNames

\* Directory names that start with a dot
DotNames == {".git", ".hidden"}

\* str.startswith('.') on a directory name
startswith_dot(name) == name \in DotNames

\* The name of a path's parent directory (Path.parent.name).  The base
\* directory itself is named none of active/staging/archive/systems.
parent_name(path) == IF path[1] = "base" THEN "personal-os" ELSE path[1]

\* ------------------------------------------------------------ file names
MarkerFiles == {"CLAUDE.md", "package.json", "requirements.txt", "Cargo.toml",
                "go.mod", "README.md", "index.html", ".gitignore"}
OtherFiles == {"TODO.md", "data.csv", "main.py", "app.js", "scraper.py",
               ".template-selection-prompt.md"}
FileNames == MarkerFiles \cup OtherFiles

\* str.lower() of a file name
lower(f) ==
    CASE f = "CLAUDE.md" -> "claude.md"
      [] f = "Cargo.toml" -> "cargo.toml"
      [] f = "README.md" -> "readme.md"
      [] f = "TODO.md" -> "todo.md"
      [] OTHER -> f

\* Path.suffix.lower() of a file name (a leading dot starts no suffix)
suffix(f) ==
    CASE f \in {"CLAUDE.md", "README.md", "TODO.md", ".template-selection-prompt.md"} -> ".md"
      [] f = "package.json" -> ".json"
      [] f = "requirements.txt" -> ".txt"
      [] f = "Cargo.toml" -> ".toml"
      [] f = "go.mod" -> ".mod"
      [] f = "index.html" -> ".html"
      [] f = "data.csv" -> ".csv"
      [] f \in {"main.py", "scraper.py"} -> ".py"
      [] f = "app.js" -> ".js"
      [] OTHER -> ""

\* word in s.lower(), for the words the classifiers look for
contains(s, word) ==
    CASE word = "scraper" -> s \in {"scraper.py"}
      [] word = "bot" -> s \in {"webbot"}
      [] word = "crawler" -> FALSE
      [] word = "system" -> s \in {"systems"}
      [] word = "tool" -> FALSE
      [] OTHER -> FALSE

\* What the user puts into a new directory: file name -> age in days, the
\* directory's own age and its size in MB.
Profiles == {
    [files |-> [f \in {"requirements.txt"} |-> 0], age |-> 0, size_mb |-> 1],
    [files |-> [f \in {"README.md"} |-> 100], age |-> 45, size_mb |-> 150] }

VARIABLES
    dirs,              \* the disk: path -> [files, mtime, size_mb], for the directories that exist
    now,               \* today
    env,               \* user changes to the disk so far
    registry_file,     \* project-registry.json: << >> while missing, else <<document>>
    project_registry,  \* ProjectLifecycleManager.project_registry
    registry,          \* ProjectDiscoveryService.registry
    known_projects,    \* ProjectDiscoveryService.known_projects
    dashboard_sync,    \* pending_updates of systems/dashboard-sync.json
    update_queue,      \* ProjectDiscoveryService.update_queue
    pc,                \* where each thread of the discovery service stands
    ret,               \* the last call and what it returned
    out                \* the value of the function last applied

vars == <<dirs, now, env, registry_file, project_registry, registry, known_projects,
          dashboard_sync, update_queue, pc, ret, out>>

lmVars == <<project_registry>>
dsVars == <<registry, known_projects, dashboard_sync, update_queue, pc>>

\* why: the branch taken (the log line), or the stage or action on success
Ret(op, id, ok, why, n) ==
    [op |-> op, id |-> id, ok |-> ok, why |-> why, n |-> n]

\* ------------------------------------------------- lifecycle-manager.py
ConfirmedStages == {"active", "staging", "archived", "system"}
ShouldBeStages == {"should_be_active", "should_be_staging", "should_be_archived"}

\* ProjectLifecycleManager.__init__ / move_project: stage -> root directory
target_dirs ==
    [stage \in ConfirmedStages |->
        CASE stage = "active" -> "active"
          [] stage = "staging" -> "staging"
          [] stage = "archived" -> "archive"
          [] stage = "system" -> "systems"]

\* The weight of one file, days_ago = (now - mod_time).days
weight(days_ago) ==
    IF days_ago = 0 THEN 10
    ELSE IF days_ago <= 7 THEN 5
    ELSE IF days_ago <= 30 THEN 2
    ELSE IF days_ago <= 90 THEN 1
    ELSE 0

RECURSIVE total_score(_, _, _)
total_score(files, names, today) ==
    IF names = {} THEN 0
    ELSE LET f == CHOOSE x \in names : TRUE
         IN weight(today - files[f]) + total_score(files, names \ {f}, today)

Max(a, b) == IF a >= b THEN a ELSE b

\* The score without max(file_count, 1) as the divisor
calculate_activity_score_no_max(files, today) ==
    [num |-> total_score(files, DOMAIN files, today),
     den |-> Cardinality(DOMAIN files)]

\* The score is the fraction num / den.
calculate_activity_score(files, today) ==
    [num |-> total_score(files, DOMAIN files, today),
     den |-> Max(Cardinality(DOMAIN files), 1)]

\* score >= k, for the fraction
score_ge(score, k) == score.num >= k * score.den

\* score > k, for the fraction
score_gt(score, k) == score.num > k * score.den

\* determine_lifecycle_stage without the branch for the archive root
determine_lifecycle_stage_no_archive(path, files, today) ==
    LET parent_dir == parent_name(path) IN
    IF parent_dir = "active" THEN "active"
    ELSE IF parent_dir = "staging" THEN "staging"
    ELSE IF parent_dir = "systems" THEN "system"
    ELSE LET activity_score == calculate_activity_score(files, today) IN
         IF score_gt(activity_score, 5) THEN "should_be_active"
         ELSE IF score_gt(activity_score, 1) THEN "should_be_staging"
         ELSE "should_be_archived"

determine_lifecycle_stage(path, files, today) ==
    LET parent_dir == parent_name(path) IN
    IF parent_dir = "active" THEN "active"
    ELSE IF parent_dir = "staging" THEN "staging"
    ELSE IF parent_dir = "archive" THEN "archived"
    ELSE IF parent_dir = "systems" THEN "system"
    ELSE LET activity_score == calculate_activity_score(files, today) IN
         IF score_gt(activity_score, 5) THEN "should_be_active"
         ELSE IF score_gt(activity_score, 1) THEN "should_be_staging"
         ELSE "should_be_archived"

classify_project_type(path, files) ==
    LET file_names == {lower(f) : f \in DOMAIN files}
        file_extensions == {suffix(f) : f \in DOMAIN files}
        n == Cardinality(DOMAIN files)
        in_path(word) == \/ contains(path[1], word)
                         \/ contains(path[2], word)
                         \/ \E f \in DOMAIN files : contains(f, word)
    IN
    IF file_names \cap {"package.json", "requirements.txt", "cargo.toml", "go.mod"} # {}
    THEN "development"
    ELSE IF file_names \cap {"claude.md", "project-notes.md", "todo.md"} # {}
    THEN "claude-project"
    ELSE IF ".py" \in file_extensions /\ n > 0 /\ in_path("scraper")
    THEN "scraper"
    ELSE IF file_extensions \cap {".csv", ".xlsx", ".json"} # {} /\ n < DataAnalysisFileLimit
    THEN "data-analysis"
    ELSE IF file_names \cap {"dashboard.html", "index.html"} # {}
    THEN "dashboard"
    ELSE IF n < OneOffFileLimit THEN "one-off"
    ELSE IF n > 0 /\ (in_path("system") \/ in_path("tool")) THEN "system-tool"
    ELSE "ongoing"

\* dict.update: the keys of info replace those of old, the others stay
dict_update(old, info) == info @@ old

\* Python's None, as a value of a registry field
None == "<None>"

\* What CLAUDE.md holds, as extract_project_metadata reads it: the text of
\* its first "# " line and the tags of its first "Tags:" line, each << >>
\* when there is no such line.  A directory without a contents field holds
\* empty files.
claude_text(d) ==
    IF "contents" \in DOMAIN d /\ "CLAUDE.md" \in DOMAIN d.contents
    THEN d.contents["CLAUDE.md"]
    ELSE [title |-> << >>, tags |-> << >>]

\* What json.load gives for package.json: a dict, or not valid JSON
package_data(d) ==
    IF "contents" \in DOMAIN d /\ "package.json" \in DOMAIN d.contents
    THEN d.contents["package.json"]
    ELSE [valid |-> FALSE, data |-> EmptyDict]

\* dict.get(key, default)
get(dict, key, default) == IF key \in DOMAIN dict THEN dict[key] ELSE default

extract_project_metadata(d) ==
    LET text == claude_text(d)
        from_claude ==
            IF "CLAUDE.md" \notin DOMAIN d.files THEN EmptyDict
            ELSE (IF text.title = << >> THEN EmptyDict
                  ELSE [k \in {"title"} |-> text.title[1]])
                 @@ (IF text.tags = << >> THEN EmptyDict
                     ELSE [k \in {"tags"} |-> text.tags[1]])
        package == package_data(d)
    IN IF "package.json" \in DOMAIN d.files /\ package.valid
       THEN [title |-> get(package.data, "name", get(from_claude, "title", None)),
             description |-> get(package.data, "description", None)]
            @@ from_claude
       ELSE from_claude

analyze_project(path) ==
    LET d == dirs[path]
        project_info ==
            [id |-> path[2],
             name |-> path[2],
             path |-> path,
             discovered_at |-> now,
             last_modified |-> d.mtime,
             size_mb |-> d.size_mb,
             file_count |-> Cardinality(DOMAIN d.files),
             type |-> classify_project_type(path, d.files),
             activity_score |-> calculate_activity_score(d.files, now),
             lifecycle_stage |-> determine_lifecycle_stage(path, d.files, now)]
        metadata == extract_project_metadata(d)
    IN IF DOMAIN metadata = {} THEN project_info
       ELSE dict_update(project_info, metadata)

\* What save_project_registry writes: the registry stamped with today
save_project_registry(reg) == [reg EXCEPT !.last_updated = now]

\* load_project_registry when the file does not exist
default_project_registry ==
    [projects |-> EmptyDict,
     last_updated |-> Day0,
     settings |-> [auto_archive_days |-> DefaultAutoArchiveDays,
                   cleanup_check_interval |-> 7,
                   backup_retention_days |-> 30]]

\* The directories discover_projects looks at under scan_root
scan_items(scan_root) ==
    {p \in DOMAIN dirs : /\ p[1] = scan_root
                         /\ ~startswith_dot(p[2])
                         /\ p[2] \notin {"systems", "active", "staging", "archive"}}

discover_projects(scan_root) ==
    LET items == scan_items(scan_root)
        found == {p[2] : p \in items}
        old == project_registry.projects
        projects == [id \in DOMAIN old \cup found |->
                        IF id \in found
                        THEN LET project_info == analyze_project(<<scan_root, id>>) IN
                             IF id \notin DOMAIN old THEN project_info
                             ELSE dict_update(old[id], project_info)
                        ELSE old[id]]
        saved == save_project_registry([project_registry EXCEPT !.projects = projects])
    IN /\ project_registry' = saved
       /\ registry_file' = <<saved>>
       /\ ret' = Ret("discover_projects", "", TRUE, scan_root, Cardinality(found))
       /\ UNCHANGED <<dirs, now, env>>

\* The early returns and the except branch of move_project: nothing changes
move_fails(project_id, why) ==
    /\ ret' = Ret("move_project", project_id, FALSE, why, 0)
    /\ UNCHANGED <<dirs, now, env, registry_file, project_registry>>

\* move_succeeds with the record's path left at the source
move_succeeds_keeps_path(project_id, target_stage, current_path, target_path) ==
    LET project_info == project_registry.projects[project_id]
        moved == dict_update(project_info,
                             [lifecycle_stage |-> target_stage, moved_at |-> now])
        saved == save_project_registry(
                     [project_registry EXCEPT !.projects[project_id] = moved])
    IN /\ dirs' = [p \in (DOMAIN dirs \ {current_path}) \cup {target_path} |->
                      IF p = target_path THEN dirs[current_path] ELSE dirs[p]]
       /\ project_registry' = saved
       /\ registry_file' = <<saved>>
       /\ ret' = Ret("move_project", project_id, TRUE, target_stage, 0)
       /\ UNCHANGED <<now, env>>

\* shutil.move succeeded: the registry is updated and saved
move_succeeds(project_id, target_stage, current_path, target_path) ==
    LET project_info == project_registry.projects[project_id]
        moved == dict_update(project_info,
                             [path |-> target_path,
                              lifecycle_stage |-> target_stage,
                              moved_at |-> now])
        saved == save_project_registry(
                     [project_registry EXCEPT !.projects[project_id] = moved])
    IN /\ dirs' = [p \in (DOMAIN dirs \ {current_path}) \cup {target_path} |->
                      IF p = target_path THEN dirs[current_path] ELSE dirs[p]]
       /\ project_registry' = saved
       /\ registry_file' = <<saved>>
       /\ ret' = Ret("move_project", project_id, TRUE, target_stage, 0)
       /\ UNCHANGED <<now, env>>

\* move_project with the record written before the directory is moved
move_project_record_first(project_id, target_stage) ==
    IF project_id \in DOMAIN project_registry.projects /\ target_stage \in DOMAIN target_dirs
    THEN LET project_info == project_registry.projects[project_id]
             target_path == <<target_dirs[target_stage], project_id>>
             moved == dict_update(project_info,
                                  [path |-> target_path,
                                   lifecycle_stage |-> target_stage,
                                   moved_at |-> now])
         IN IF target_path \in DOMAIN dirs \/ project_info.path \notin DOMAIN dirs
            THEN /\ project_registry' = [project_registry EXCEPT !.projects[project_id] = moved]
                 /\ ret' = Ret("move_project", project_id, FALSE, "failed to move", 0)
                 /\ UNCHANGED <<dirs, now, env, registry_file>>
            ELSE move_succeeds(project_id, target_stage, project_info.path, target_path)
    ELSE move_fails(project_id, "not found in registry")

\* shutil.move raises when the source is gone, and may raise although it
\* is there (permissions, a busy file); the directory then stays put.
move_project(project_id, target_stage) ==
    IF project_id \notin DOMAIN project_registry.projects
    THEN move_fails(project_id, "not found in registry")
    ELSE IF target_stage \notin DOMAIN target_dirs
    THEN move_fails(project_id, "invalid target stage")
    ELSE LET current_path == project_registry.projects[project_id].path
             target_path == <<target_dirs[target_stage], project_id>>
         IN IF target_path \in DOMAIN dirs
            THEN move_fails(project_id, "target path already exists")
            ELSE IF current_path \notin DOMAIN dirs
            THEN move_fails(project_id, "failed to move")
            ELSE \/ move_fails(project_id, "failed to move")
                 \/ move_succeeds(project_id, target_stage, current_path, target_path)

archive_project(project_id) == move_project(project_id, "archived")

\* The suggestion dicts execute_lifecycle_action is given
ActionKinds == {"move_project", "auto_archive", "remove_registry_entry", "review_cleanup"}

execute_lifecycle_action(action) ==
    LET op == "execute_lifecycle_action" IN
    IF action.action = "move_project"
    THEN move_project(action.project, action.to)
    ELSE IF action.action = "auto_archive"
    THEN archive_project(action.project)
    ELSE IF action.action = "remove_registry_entry"
    THEN IF action.project \notin DOMAIN project_registry.projects
         THEN \* del raises KeyError, caught
              /\ ret' = Ret(op, action.project, FALSE, "KeyError", 0)
              /\ UNCHANGED <<dirs, now, env, registry_file, project_registry>>
         ELSE LET old == project_registry.projects
                  projects == [id \in DOMAIN old \ {action.project} |-> old[id]]
                  saved == save_project_registry(
                               [project_registry EXCEPT !.projects = projects])
              IN /\ project_registry' = saved
                 /\ registry_file' = <<saved>>
                 /\ ret' = Ret(op, action.project, TRUE, action.action, 0)
                 /\ UNCHANGED <<dirs, now, env>>
    ELSE IF action.action = "review_cleanup"
    THEN /\ ret' = Ret(op, action.project, TRUE, action.action, 0)
         /\ UNCHANGED <<dirs, now, env, registry_file, project_registry>>
    ELSE /\ ret' = Ret(op, action.project, FALSE, "", 0)
         /\ UNCHANGED <<dirs, now, env, registry_file, project_registry>>

\* The stage handed on as it is
replace_nothing(stage) == stage

\* str.replace('should_be_', '') of a stage
replace_should_be(stage) ==
    CASE stage = "should_be_active" -> "active"
      [] stage = "should_be_staging" -> "staging"
      [] stage = "should_be_archived" -> "archived"
      [] OTHER -> stage

\* The auto-archive test with >= for >
should_auto_archive_at_threshold(days_inactive, auto_archive_days, current_stage) ==
    days_inactive >= auto_archive_days /\ current_stage \notin {"archived", "system"}

\* The condition of the auto-archive suggestion
should_auto_archive(days_inactive, auto_archive_days, current_stage) ==
    days_inactive > auto_archive_days /\ current_stage \notin {"archived", "system"}

\* The keys one iteration of suggest_lifecycle_actions reads with [] from a
\* record whose path exists; a missing one raises KeyError
keys_read == {"lifecycle_stage", "last_modified", "size_mb"}

\* The suggestions of one iteration for a record whose path exists
checks_for(project_id, project_info, reg) ==
    LET current_stage == project_info.lifecycle_stage
        days_inactive == now - project_info.last_modified
        move == IF current_stage \in ShouldBeStages
                THEN <<[action |-> "move_project", project |-> project_id,
                        from |-> project_info.path,
                        to |-> replace_should_be(current_stage),
                        priority |-> "medium"]>>
                ELSE << >>
        archive == IF should_auto_archive(days_inactive,
                                          reg.settings.auto_archive_days, current_stage)
                   THEN <<[action |-> "auto_archive", project |-> project_id,
                           priority |-> "low"]>>
                   ELSE << >>
        cleanup == IF project_info.size_mb > LargeProjectMb
                   THEN <<[action |-> "review_cleanup", project |-> project_id,
                           priority |-> "low"]>>
                   ELSE << >>
    IN move \o archive \o cleanup

remove_entry(project_id) ==
    <<[action |-> "remove_registry_entry", project |-> project_id, priority |-> "high"]>>

\* One iteration without the continue after the remove_registry_entry suggestion
suggest_for_no_continue(project_id, project_info, reg, d) ==
    IF "path" \notin DOMAIN project_info THEN [raised |-> TRUE, suggestions |-> << >>]
    ELSE LET removal == IF project_info.path \notin DOMAIN d
                        THEN remove_entry(project_id) ELSE << >>
         IN IF \/ ~(keys_read \subseteq DOMAIN project_info)
               \/ "settings" \notin DOMAIN reg
            THEN [raised |-> TRUE, suggestions |-> removal]
            ELSE [raised |-> FALSE,
                  suggestions |-> removal \o checks_for(project_id, project_info, reg)]

\* One iteration of the loop of suggest_lifecycle_actions: the suggestions
\* it appends, or the KeyError it raises
suggest_for(project_id, project_info, reg, d) ==
    IF "path" \notin DOMAIN project_info THEN [raised |-> TRUE, suggestions |-> << >>]
    ELSE IF project_info.path \notin DOMAIN d
    THEN [raised |-> FALSE, suggestions |-> remove_entry(project_id)]
    ELSE IF \/ ~(keys_read \subseteq DOMAIN project_info)
            \/ "settings" \notin DOMAIN reg
    THEN [raised |-> TRUE, suggestions |-> << >>]
    ELSE [raised |-> FALSE, suggestions |-> checks_for(project_id, project_info, reg)]

\* The loop over the registry's items, ids being the order of the dict
RECURSIVE suggest_loop(_, _, _, _)
suggest_loop(ids, reg, d, suggestions) ==
    IF ids = << >> THEN [raised |-> FALSE, suggestions |-> suggestions]
    ELSE LET one == suggest_for(Head(ids), reg.projects[Head(ids)], reg, d)
         IN IF one.raised THEN [raised |-> TRUE, suggestions |-> << >>]
            ELSE suggest_loop(Tail(ids), reg, d, suggestions \o one.suggestions)

suggest_lifecycle_actions(ids, reg, d) == suggest_loop(ids, reg, d, << >>)


\* ------------------------------------------- project-discovery-service.py
\* ProjectDiscoveryService.__init__: the directories scanned for projects
watch_dirs == <<"base", "active", "staging", "archive">>

skip_dirs == {".git", ".venv", "node_modules", "__pycache__", ".DS_Store",
              "systems", ".vault", "backups"}

project_indicators == {"CLAUDE.md", "package.json", "requirements.txt", "Cargo.toml",
                       "go.mod", "README.md", "index.html", ".gitignore"}

key_indicators == {"CLAUDE.md", "package.json", "requirements.txt"}

\* is_project_directory on the disk d
is_project_directory(d, path) ==
    IF path \notin DOMAIN d THEN FALSE
    ELSE IF path[2] \in skip_dirs THEN FALSE
    ELSE LET indicators_found == Cardinality(project_indicators \cap DOMAIN d[path].files)
             has_key_indicator == key_indicators \cap DOMAIN d[path].files # {}
         IN indicators_found >= 2 \/ has_key_indicator

\* The type cascade with package.json looked for before CLAUDE.md
quick_type_node_first(name, files) ==
    IF "package.json" \in files THEN "development-nodejs"
    ELSE IF "CLAUDE.md" \in files THEN "claude-project"
    ELSE IF "requirements.txt" \in files THEN "development-python"
    ELSE IF "index.html" \in files THEN "web-project"
    ELSE IF \E f \in files : suffix(f) = ".csv" THEN "data-analysis"
    ELSE IF \E word \in {"scraper", "bot", "crawler"} : contains(name, word) THEN "automation"
    ELSE LET py_files == Cardinality({f \in files : suffix(f) = ".py"})
             js_files == Cardinality({f \in files : suffix(f) = ".js"})
         IN IF py_files > js_files THEN "development-python"
            ELSE IF js_files > 0 THEN "development-web"
            ELSE "general"

\* The type cascade of analyze_project_quick
quick_type(name, files) ==
    IF "CLAUDE.md" \in files THEN "claude-project"
    ELSE IF "package.json" \in files THEN "development-nodejs"
    ELSE IF "requirements.txt" \in files THEN "development-python"
    ELSE IF "index.html" \in files THEN "web-project"
    ELSE IF \E f \in files : suffix(f) = ".csv" THEN "data-analysis"
    ELSE IF \E word \in {"scraper", "bot", "crawler"} : contains(name, word) THEN "automation"
    ELSE LET py_files == Cardinality({f \in files : suffix(f) = ".py"})
             js_files == Cardinality({f \in files : suffix(f) = ".js"})
         IN IF py_files > js_files THEN "development-python"
            ELSE IF js_files > 0 THEN "development-web"
            ELSE "general"

\* The status analyze_project_quick derives from the location
quick_status(path) ==
    LET parent == parent_name(path) IN
    IF parent = "active" THEN "active"
    ELSE IF parent = "staging" THEN "staging"
    ELSE IF parent = "archive" THEN "archived"
    ELSE "discovered"

analyze_project_quick(d, path) ==
    [id |-> path[2],
     name |-> path[2],
     path |-> path,
     discovered_at |-> now,
     type |-> quick_type(path[2], DOMAIN d[path].files),
     status |-> quick_status(path),
     last_modified |-> d[path].mtime]

\* load_registry when the file does not exist
default_registry ==
    [projects |-> EmptyDict,
     last_updated |-> Day0,
     discovery_settings |-> [auto_discovery |-> TRUE, sync_frequency_minutes |-> 5]]

\* What save_registry writes
save_registry(reg) == [reg EXCEPT !.last_updated = now]

\* apply_template_inheritance: with the template generator installed the
\* folder gets a template selection prompt (every template category holds
\* more than one template); any failure is swallowed.
apply_template_inheritance(d, path, installed) ==
    IF ~installed THEN d
    ELSE LET prompt == ".template-selection-prompt.md"
             files == d[path].files
         IN [d EXCEPT ![path].files =
                    [f \in DOMAIN files \cup {prompt} |->
                        IF f = prompt THEN now ELSE files[f]],
                  ![path].mtime = now]

\* The service's state as one value, for the calls that run in sequence:
\* st.result is what the last call of check_new_project returned.
ds_state ==
    [dirs |-> dirs, registry |-> registry, known_projects |-> known_projects,
     registry_file |-> registry_file, dashboard_sync |-> dashboard_sync,
     result |-> FALSE]

\* queue_dashboard_sync: one more pending update
queue_dashboard_sync(pending, project_info) ==
    Append(pending, [project_id |-> project_info.id, action |-> "update",
                     data |-> project_info])

\* check_new_project without known_projects.add
register_project_unmarked(st, path) ==
    LET project_info == analyze_project_quick(st.dirs, path)
        project_id == path[2]
        projects == [id \in DOMAIN st.registry.projects \cup {project_id} |->
                        IF id = project_id THEN project_info
                        ELSE st.registry.projects[id]]
        saved == save_registry([st.registry EXCEPT !.projects = projects])
    IN [st EXCEPT !.registry = saved,
                  !.registry_file = <<saved>>,
                  !.dashboard_sync = queue_dashboard_sync(@, project_info),
                  !.result = TRUE]

\* The registration both branches of check_new_project share: analyse, add
\* to the registry and to known_projects, save, queue for dashboard sync
register_project(st, path) ==
    LET project_info == analyze_project_quick(st.dirs, path)
        project_id == path[2]
        projects == [id \in DOMAIN st.registry.projects \cup {project_id} |->
                        IF id = project_id THEN project_info
                        ELSE st.registry.projects[id]]
        saved == save_registry([st.registry EXCEPT !.projects = projects])
    IN [st EXCEPT !.registry = saved,
                  !.known_projects = @ \cup {project_id},
                  !.registry_file = <<saved>>,
                  !.dashboard_sync = queue_dashboard_sync(@, project_info),
                  !.result = TRUE]

\* check_new_project without the test of known_projects in the existing
\* logic
check_new_project_known_again(st, path, installed) ==
    IF is_project_directory(st.dirs, path)
    THEN register_project(st, path)
    ELSE [st EXCEPT !.result = FALSE]

check_new_project(st, path, installed) ==
    LET project_id == path[2]
        existing == \* "existing logic", below the new-folder branch
            IF ~is_project_directory(st.dirs, path) THEN [st EXCEPT !.result = FALSE]
            ELSE IF project_id \in st.known_projects THEN [st EXCEPT !.result = FALSE]
            ELSE register_project(st, path)
    IN IF /\ path \in DOMAIN st.dirs
          /\ parent_name(path) \in {"active", "staging", "archive"}
          /\ project_id \notin st.known_projects
       THEN LET templated ==
                    [st EXCEPT !.dirs = apply_template_inheritance(@, path, installed)]
            IN IF is_project_directory(templated.dirs, path)
               THEN register_project(templated, path)
               ELSE [templated EXCEPT !.result = FALSE]
       ELSE existing

\* One watch directory of discover_all_projects: its items in the order
\* iterdir yields them (names is that order); st.n counts the registrations.
RECURSIVE scan_watch_dir(_, _, _, _)
scan_watch_dir(st, watch_dir, names, installed) ==
    IF names = << >> THEN st
    ELSE LET item == <<watch_dir, Head(names)>>
             next == IF item \in DOMAIN st.dirs /\ is_project_directory(st.dirs, item)
                     THEN LET checked == check_new_project(st, item, installed)
                          IN [checked EXCEPT !.n = IF checked.result THEN @ + 1 ELSE @]
                     ELSE st
         IN scan_watch_dir(next, watch_dir, Tail(names), installed)

RECURSIVE scan_watch_dirs(_, _, _, _)
scan_watch_dirs(st, watch, names, installed) ==
    IF watch = << >> THEN st
    ELSE scan_watch_dirs(scan_watch_dir(st, Head(watch), names, installed),
                         Tail(watch), names, installed)

\* The lifecycle roots themselves hold project directories only, so the
\* scan of the base directory registers none of them.  ret.why tells
\* whether the call before this one was discover_all_projects too.
discover_all_projects(names, installed) ==
    LET st == scan_watch_dirs(ds_state @@ [n |-> 0], watch_dirs, names, installed)
    IN /\ dirs' = st.dirs
       /\ registry' = st.registry
       /\ known_projects' = st.known_projects
       /\ registry_file' = st.registry_file
       /\ dashboard_sync' = st.dashboard_sync
       /\ ret' = Ret("discover_all_projects", "", TRUE,
                     IF ret.op = "discover_all_projects" THEN "repeated" ELSE "first", st.n)
       /\ UNCHANGED <<now, env>>

\* check_new_project called for one path (the timer of on_created)
CheckNewProject(path, installed) ==
    LET st == check_new_project(ds_state, path, installed)
    IN /\ dirs' = st.dirs
       /\ registry' = st.registry
       /\ known_projects' = st.known_projects
       /\ registry_file' = st.registry_file
       /\ dashboard_sync' = st.dashboard_sync
       /\ ret' = Ret("check_new_project", path[2], st.result, path[1], 0)
       /\ UNCHANGED <<now, env>>

\* queue_project_update without the test of known_projects
queue_project_update_unknown(project_id) == update_queue \cup {project_id}

\* queue_project_update: only a known id is queued
queue_project_update(project_id) ==
    IF project_id \in known_projects THEN update_queue \cup {project_id} ELSE update_queue

\* The file names on_modified reacts to
watched_files == {"CLAUDE.md", "TODO.md", "package.json", "requirements.txt"}

\* on_modified: update_queue after the event.  event.parent is the name of
\* the directory holding the changed path, event.name the path's own name.
on_modified(event) ==
    IF ~event.is_directory /\ event.name \in watched_files
    THEN queue_project_update(event.parent)
    ELSE update_queue

\* Whether process_update_queue refreshes the record of a queued id
refreshes(reg, d, project_id) ==
    /\ project_id \in DOMAIN reg.projects
    /\ reg.projects[project_id].path \in DOMAIN d

\* The body of the loop of process_update_queue for a record it refreshes:
\* the fresh analysis merged into the record, stamped with last_updated
refreshed_record(reg, d, project_id) ==
    LET old == reg.projects[project_id]
        updated_info == analyze_project_quick(d, old.path)
        merged == dict_update(old, updated_info)
    IN [k \in DOMAIN merged \cup {"last_updated"} |->
           IF k = "last_updated" THEN now ELSE merged[k]]

\* One iteration of the loop without the hand-over to the dashboard sync
refresh_one_unsynced(st, project_id) ==
    IF refreshes(st.registry, st.dirs, project_id)
    THEN [st EXCEPT !.registry.projects[project_id] =
                        refreshed_record(st.registry, st.dirs, project_id)]
    ELSE st

\* One iteration of the loop of process_update_queue on the state st
refresh_one(st, project_id) ==
    IF refreshes(st.registry, st.dirs, project_id)
    THEN LET record == refreshed_record(st.registry, st.dirs, project_id)
         IN [st EXCEPT !.registry.projects[project_id] = record,
                       !.dashboard_sync = queue_dashboard_sync(@, record)]
    ELSE st

RECURSIVE refresh_all(_, _)
refresh_all(st, ids) ==
    IF ids = << >> THEN st
    ELSE refresh_all(refresh_one(st, Head(ids)), Tail(ids))

\* process_update_queue run from its first to its last statement, ids being
\* the order of list(self.update_queue)
process_update_queue(ids) ==
    IF update_queue = {}
    THEN /\ ret' = Ret("process_update_queue", "", TRUE, "empty", 0)
         /\ UNCHANGED <<dirs, now, env, registry_file, registry, known_projects,
                        dashboard_sync, update_queue>>
    ELSE LET st == refresh_all(ds_state, ids)
             saved == save_registry(st.registry)
         IN /\ registry' = saved
            /\ registry_file' = <<saved>>
            /\ dashboard_sync' = st.dashboard_sync
            /\ update_queue' = {}
            /\ ret' = Ret("process_update_queue", "", TRUE, "saved", Len(ids))
            /\ UNCHANGED <<dirs, now, env, known_projects>>


\* ------------------------------------------------------------- the user
EnvRet == Ret("user", "", TRUE, "", 0)

EnvCreate(path, profile) ==
    /\ env < MaxEnv
    /\ path \notin DOMAIN dirs
    /\ dirs' = [p \in DOMAIN dirs \cup {path} |->
                   IF p = path
                   THEN [files |-> [f \in DOMAIN profile.files |-> now - profile.files[f]],
                         mtime |-> now - profile.age,
                         size_mb |-> profile.size_mb]
                   ELSE dirs[p]]
    /\ env' = env + 1
    /\ ret' = EnvRet
    /\ UNCHANGED now

EnvDelete(path) ==
    /\ env < MaxEnv
    /\ path \in DOMAIN dirs
    /\ dirs' = [p \in DOMAIN dirs \ {path} |-> dirs[p]]
    /\ env' = env + 1
    /\ ret' = EnvRet
    /\ UNCHANGED now

\* ------------------------------------------- the lifecycle manager's runs
NoOut == [fn |-> "", value |-> 0]

\* Stages handed to move_project: the four it knows and one it does not
StageArgs == ConfirmedStages \cup {"should_be_active"}

\* The suggestion dicts handed to execute_lifecycle_action ("to" is read
\* for move_project only)
Suggestions ==
    {[action |-> "move_project", project |-> id, to |-> to] :
        id \in ProjectNames, to \in {"active", "archived"}}
    \cup {[action |-> kind, project |-> id, to |-> ""] :
        kind \in ActionKinds \ {"move_project"}, id \in ProjectNames}

\* Where the user drops new directories
CreateParents == {"base", "archive"}

\* A fresh base directory: the constructor found no registry file, built
\* the default registry and saved it.
Init ==
    /\ dirs = EmptyDict
    /\ now = Day0
    /\ env = 0
    /\ registry_file = <<default_project_registry>>
    /\ project_registry = default_project_registry
    /\ registry = EmptyDict
    /\ known_projects = {}
    /\ dashboard_sync = << >>
    /\ update_queue = {}
    /\ pc = EmptyDict
    /\ ret = Ret("__init__", "", TRUE, "", 0)
    /\ out = NoOut

DiscoverProjects ==
    /\ \E scan_root \in Parents : discover_projects(scan_root)
    /\ UNCHANGED <<dsVars, out>>

MoveProject ==
    /\ \E id \in ProjectNames, stage \in StageArgs : move_project(id, stage)
    /\ UNCHANGED <<dsVars, out>>

ArchiveProject ==
    /\ \E id \in ProjectNames : archive_project(id)
    /\ UNCHANGED <<dsVars, out>>

ExecuteLifecycleAction ==
    /\ \E action \in Suggestions : execute_lifecycle_action(action)
    /\ UNCHANGED <<dsVars, out>>

UserCreates ==
    /\ \E parent \in CreateParents, name \in Names, profile \in Profiles :
          EnvCreate(<<parent, name>>, profile)
    /\ UNCHANGED <<registry_file, lmVars, dsVars, out>>

UserDeletes ==
    /\ \E path \in DOMAIN dirs : EnvDelete(path)
    /\ UNCHANGED <<registry_file, lmVars, dsVars, out>>

Next ==
    \/ DiscoverProjects
    \/ MoveProject
    \/ ArchiveProject
    \/ ExecuteLifecycleAction
    \/ UserCreates
    \/ UserDeletes

Spec == Init /\ [][Next]_vars

\* ------------------------------------------- the discovery service's runs
\* What the user puts into a directory of a watched directory
WatchedProfiles == {
    [files |-> [f \in {"requirements.txt"} |-> 0], age |-> 0, size_mb |-> 1],
    [files |-> [f \in {"README.md"} |-> 100], age |-> 45, size_mb |-> 150],
    [files |-> [f \in {"README.md", ".gitignore"} |-> 5], age |-> 5, size_mb |-> 1] }

\* The orders in which iterdir may yield the names
NameOrders == {<<"foo", "bar">>, <<"bar", "foo">>}

\* A fresh base directory: the service found no registry file and holds the
\* default registry, which it has not written.
InitDS ==
    /\ dirs = EmptyDict
    /\ now = Day0
    /\ env = 0
    /\ registry_file = << >>
    /\ project_registry = default_project_registry
    /\ registry = default_registry
    /\ known_projects = {}
    /\ dashboard_sync = << >>
    /\ update_queue = {}
    /\ pc = EmptyDict
    /\ ret = Ret("__init__", "", TRUE, "", 0)
    /\ out = NoOut

DiscoverAllProjects ==
    /\ \E names \in NameOrders, installed \in BOOLEAN :
          discover_all_projects(names, installed)
    /\ UNCHANGED <<lmVars, update_queue, pc, out>>

CheckNewProjectCall ==
    /\ \E path \in DOMAIN dirs, installed \in BOOLEAN : CheckNewProject(path, installed)
    /\ UNCHANGED <<lmVars, update_queue, pc, out>>

UserCreatesWatched ==
    /\ \E parent \in {"base", "active", "archive"}, name \in Names,
          profile \in WatchedProfiles :
          EnvCreate(<<parent, name>>, profile)
    /\ UNCHANGED <<registry_file, lmVars, dsVars, out>>

NextDS ==
    \/ DiscoverAllProjects
    \/ CheckNewProjectCall
    \/ UserCreatesWatched
    \/ UserDeletes

SpecDS == InitDS /\ [][NextDS]_vars

\* ------------------------------------------ lifecycle-manager.py, main()
\* A registry file that json.load cannot parse
CorruptJson == [json |-> "invalid"]

\* load_project_registry, json.load raising on a corrupt file
load_raises == registry_file # << >> /\ registry_file[1] = CorruptJson

\* The registry load_project_registry builds or reads
loaded_project_registry ==
    IF registry_file = << >>
    THEN [default_project_registry EXCEPT !.last_updated = now]
    ELSE registry_file[1]

\* out while a command of main() runs: the manager is constructed and
\* args.action is still to be carried out
Running(action) == [fn |-> "ProjectLifecycleManager", value |-> action]

\* out when main() is over: the command and the exit status of the process
\* The command args.action is about to be carried out
running(action) == out.fn = "ProjectLifecycleManager" /\ out.value = action

Exited(action, status) == [fn |-> "main", value |-> [action |-> action, exit |-> status]]

\* manager = ProjectLifecycleManager(), outside the try block of main():
\* load_project_registry and the save_project_registry that ends it.  An
\* exception here ends the process with a traceback.
LmConstruct(action) ==
    /\ out.fn # "ProjectLifecycleManager"
    /\ IF load_raises
       THEN /\ ret' = Ret("load_project_registry", "", FALSE, "JSONDecodeError", 0)
            /\ out' = Exited(action, 1)
            /\ UNCHANGED <<registry_file, project_registry>>
       ELSE LET saved == save_project_registry(loaded_project_registry)
            IN /\ project_registry' = saved
               /\ registry_file' = <<saved>>
               /\ ret' = Ret("load_project_registry", "", TRUE, "", 0)
               /\ out' = Running(action)
    /\ UNCHANGED <<dirs, now, env, dsVars>>

\* main() returns after its command, with or without success: status 0
MainDiscover ==
    /\ running("discover")
    /\ discover_projects("base")
    /\ out' = Exited("discover", 0)
    /\ UNCHANGED dsVars

\* --action execute, interactive: the user answers y for one
\* remove_registry_entry suggestion and q after it
MainExecuteRemoval ==
    /\ running("execute")
    /\ \E order \in {<<"foo", "bar">>, <<"bar", "foo">>, <<"foo">>, <<"bar">>} :
          /\ {order[i] : i \in 1..Len(order)} = DOMAIN project_registry.projects
          /\ LET result == suggest_lifecycle_actions(order, project_registry, dirs)
             IN /\ ~result.raised
                /\ \E i \in 1..Len(result.suggestions) :
                      /\ result.suggestions[i].action = "remove_registry_entry"
                      /\ execute_lifecycle_action(result.suggestions[i])
    /\ out' = Exited("execute", 0)
    /\ UNCHANGED dsVars

\* ----------------------------- both programs on one project-registry.json
\* A fresh base directory with the discovery service running: it holds the
\* default registry and has written nothing.  The lifecycle manager is run
\* from the command line now and then.
InitShared ==
    /\ dirs = EmptyDict
    /\ project_registry = default_project_registry
    /\ registry_file = << >>
    /\ registry = default_registry
    /\ now = Day0
    /\ env = 0
    /\ known_projects = {}
    /\ dashboard_sync = << >>
    /\ update_queue = {}
    /\ pc = EmptyDict
    /\ ret = Ret("__init__", "", TRUE, "", 0)
    /\ out = NoOut

LmStarts ==
    \E action \in {"discover", "execute"} : LmConstruct(action)

ServiceChecksNewProject ==
    /\ \E path \in DOMAIN dirs : CheckNewProject(path, FALSE)
    /\ UNCHANGED <<lmVars, update_queue, pc, out>>

NextShared ==
    \/ LmStarts
    \/ MainDiscover
    \/ MainExecuteRemoval
    \/ ServiceChecksNewProject
    \/ UserCreatesWatched
    \/ UserDeletes

SpecShared == InitShared /\ [][NextShared]_vars

\* --------------------------------------------- the classifiers, on their own
\* One directory, foo, holding any set of marker files, under the base
\* directory or under active/
ClassifyParents == {"base", "active"}

IdleState ==
    /\ now = Day0
    /\ env = 0
    /\ registry_file = << >>
    /\ registry = default_registry
    /\ known_projects = {}
    /\ dashboard_sync = << >>
    /\ update_queue = {}
    /\ pc = EmptyDict
    /\ ret = Ret("__init__", "", TRUE, "", 0)
    /\ out = NoOut

InitClassify ==
    /\ \E parent \in ClassifyParents, present \in SUBSET MarkerFiles :
          dirs = [p \in {<<parent, "foo">>} |->
                     [files |-> [f \in present |-> Day0], mtime |-> Day0, size_mb |-> 1]]
    /\ project_registry = default_project_registry
    /\ IdleState

IsProjectDirectory ==
    /\ \E path \in DOMAIN dirs :
          out' = [fn |-> "is_project_directory", value |-> is_project_directory(dirs, path)]
    /\ UNCHANGED <<dirs, now, env, registry_file, lmVars, dsVars, ret>>

AnalyzeProject ==
    /\ \E path \in DOMAIN dirs :
          out' = [fn |-> "analyze_project", value |-> analyze_project(path)]
    /\ UNCHANGED <<dirs, now, env, registry_file, lmVars, dsVars, ret>>

AnalyzeProjectQuick ==
    /\ \E path \in DOMAIN dirs :
          out' = [fn |-> "analyze_project_quick", value |-> analyze_project_quick(dirs, path)]
    /\ UNCHANGED <<dirs, now, env, registry_file, lmVars, dsVars, ret>>

NextClassify ==
    \/ IsProjectDirectory
    \/ AnalyzeProject
    \/ AnalyzeProjectQuick

SpecClassify == InitClassify /\ [][NextClassify]_vars

\* ------------------------------------------- the activity score, on its own
\* The files of the one directory and how many days ago each was modified
\* (-1: stamped in the future)
ScoreFiles == {"TODO.md", "main.py", "app.js"}
Ages == {-1, 0, 1, 7, 8, 30, 31, 90, 91}

InitScore ==
    /\ \E present \in SUBSET ScoreFiles :
          \E ages \in [present -> Ages] :
             dirs = [p \in {<<"base", "foo">>} |->
                        [files |-> [f \in present |-> Day0 - ages[f]],
                         mtime |-> Day0, size_mb |-> 1]]
    /\ project_registry = default_project_registry
    /\ IdleState

CalculateActivityScore ==
    /\ \E path \in DOMAIN dirs :
          out' = [fn |-> "calculate_activity_score",
                  value |-> calculate_activity_score(dirs[path].files, now)]
    /\ UNCHANGED <<dirs, now, env, registry_file, lmVars, dsVars, ret>>

NextScore == CalculateActivityScore

SpecScore == InitScore /\ [][NextScore]_vars

\* ------------------------------------------- the lifecycle stage, on its own
\* One directory foo under the base directory or a lifecycle root, with up
\* to two files of any age
StageFiles == {"TODO.md", "main.py"}
StageAges == {0, 1, 8, 31, 91}

InitStage ==
    /\ \E parent \in Parents, present \in SUBSET StageFiles :
          \E ages \in [present -> StageAges] :
             dirs = [p \in {<<parent, "foo">>} |->
                        [files |-> [f \in present |-> Day0 - ages[f]],
                         mtime |-> Day0, size_mb |-> 1]]
    /\ project_registry = default_project_registry
    /\ IdleState

DetermineLifecycleStage ==
    /\ \E path \in DOMAIN dirs :
          out' = [fn |-> "determine_lifecycle_stage",
                  value |-> determine_lifecycle_stage(path, dirs[path].files, now)]
    /\ UNCHANGED <<dirs, now, env, registry_file, lmVars, dsVars, ret>>

NextStage ==
    \/ DetermineLifecycleStage
    \/ CalculateActivityScore

SpecStage == InitStage /\ [][NextStage]_vars

\* ------------------------------------------------- the quick type, on its own
\* One directory, named foo or webbot, holding any of these files
QuickNames == {"foo", "webbot"}
QuickFiles == {"CLAUDE.md", "package.json", "requirements.txt", "index.html",
               "data.csv", "main.py", "scraper.py", "app.js"}

InitQuick ==
    /\ \E name \in QuickNames, present \in SUBSET QuickFiles :
          dirs = [p \in {<<"active", name>>} |->
                     [files |-> [f \in present |-> Day0], mtime |-> Day0, size_mb |-> 1]]
    /\ project_registry = default_project_registry
    /\ IdleState

NextQuick ==
    \/ AnalyzeProjectQuick
    \/ IsProjectDirectory

SpecQuick == InitQuick /\ [][NextQuick]_vars

\* ------------------------------------ hidden and system directories, on their own
\* One directory under the base directory or under active/, with a hidden
\* or system name or an ordinary one, holding any of two marker files
SkipNames == {".git", ".hidden", "node_modules", "backups", "systems", "foo"}

InitSkip ==
    /\ \E parent \in {"base", "active"}, name \in SkipNames,
          present \in SUBSET {"CLAUDE.md", "README.md"} :
          dirs = [p \in {<<parent, name>>} |->
                     [files |-> [f \in present |-> Day0], mtime |-> Day0, size_mb |-> 1]]
    /\ project_registry = default_project_registry
    /\ IdleState

\* discover_all_projects, the scanned directories holding one item
DiscoverAllOfOne ==
    /\ \E path \in DOMAIN dirs, installed \in BOOLEAN :
          discover_all_projects(<<path[2]>>, installed)
    /\ UNCHANGED <<lmVars, update_queue, pc, out>>

NextSkip ==
    \/ IsProjectDirectory
    \/ DiscoverAllOfOne
    \/ CheckNewProjectCall
    \/ DiscoverProjects

SpecSkip == InitSkip /\ [][NextSkip]_vars

\* --------------------------------------------- the suggestions, on their own
\* Registries the lifecycle manager has written: each record sits under a
\* lifecycle root with that root's stage, or elsewhere with a should_be_*
\* stage; its directory may be gone since.
AltAutoArchiveDays == 44
InactiveDays == {20, 30, 31, 45}
SizesMb == {1, 150}
Placements ==
    {<<"base", "should_be_active">>, <<"base", "should_be_staging">>,
     <<"base", "should_be_archived">>, <<"active", "active">>,
     <<"staging", "staging">>, <<"archive", "archived">>, <<"systems", "system">>}

Record(id, placement, days, size) ==
    [id |-> id,
     name |-> id,
     path |-> <<placement[1], id>>,
     discovered_at |-> Day0 - days,
     last_modified |-> Day0 - days,
     size_mb |-> size,
     file_count |-> 1,
     type |-> "one-off",
     activity_score |-> [num |-> 0, den |-> 1],
     lifecycle_stage |-> placement[2]]

RecordsOf(id) ==
    {Record(id, placement, days, size) :
        placement \in Placements, days \in InactiveDays, size \in SizesMb}

\* The orders of the registry's dict
IdOrders(ids) == {order \in {<<"foo">>, <<"bar">>, <<"foo", "bar">>, <<"bar", "foo">>, << >>} :
                     /\ {order[i] : i \in 1..Len(order)} = ids}

InitSuggest ==
    /\ \E ids \in SUBSET ProjectNames :
          \E projects \in [ids -> UNION {RecordsOf(id) : id \in ProjectNames}],
             there \in SUBSET ids,
             days \in {DefaultAutoArchiveDays, AltAutoArchiveDays} :
             /\ \A id \in ids : projects[id].id = id
             /\ project_registry =
                   [default_project_registry EXCEPT
                       !.projects = projects,
                       !.settings.auto_archive_days = days]
             /\ dirs = [p \in {projects[id].path : id \in there} |->
                           [files |-> [f \in {"README.md"} |-> Day0],
                            mtime |-> Day0, size_mb |-> 1]]
    /\ IdleState

SuggestLifecycleActions ==
    /\ \E order \in IdOrders(DOMAIN project_registry.projects) :
          out' = [fn |-> "suggest_lifecycle_actions",
                  value |-> suggest_lifecycle_actions(order, project_registry, dirs)]
    /\ UNCHANGED <<dirs, now, env, registry_file, lmVars, dsVars, ret>>

NextSuggest == SuggestLifecycleActions

SpecSuggest == InitSuggest /\ [][NextSuggest]_vars

\* --------------------------------------- the two programs, run as commands
\* The registry load_registry builds or reads
loaded_registry ==
    IF registry_file = << >>
    THEN [default_registry EXCEPT !.last_updated = now]
    ELSE registry_file[1]

\* ProjectDiscoveryService.__init__: load_registry, then known_projects
\* from the keys of the registry.  json.load raises on a corrupt file and
\* nothing catches it.
DsConstruct ==
    /\ IF load_raises
       THEN /\ ret' = Ret("load_registry", "", FALSE, "JSONDecodeError", 0)
            /\ UNCHANGED <<registry, known_projects>>
       ELSE /\ registry' = loaded_registry
            /\ known_projects' = DOMAIN loaded_registry.projects
            /\ ret' = Ret("load_registry", "", TRUE, "", 0)
    /\ UNCHANGED <<dirs, now, env, registry_file, lmVars, dashboard_sync, update_queue, pc, out>>

\* The registry files found at the start of a command: written the day
\* before by the lifecycle manager or by the discovery service
YesterdaysFiles ==
    {[default_project_registry EXCEPT
         !.projects = [id \in {"foo"} |-> Record("foo", placement, 20, 1)],
         !.last_updated = Day0 - 1] : placement \in Placements}
    \cup {[default_registry EXCEPT
              !.projects = [id \in {"foo"} |->
                              [id |-> "foo", name |-> "foo", path |-> <<parent, "foo">>,
                               discovered_at |-> Day0 - 1, type |-> "development-python",
                               status |-> IF parent = "active" THEN "active" ELSE "discovered",
                               last_modified |-> Day0 - 1]],
              !.last_updated = Day0 - 1] : parent \in {"base", "active"}}

InitCli ==
    /\ \E there \in SUBSET {<<"base", "foo">>, <<"active", "foo">>, <<"archive", "foo">>} :
          dirs = [p \in there |-> [files |-> [f \in {"requirements.txt"} |-> Day0 - 1],
                                   mtime |-> Day0 - 1, size_mb |-> 1]]
    /\ registry_file \in {<< >>, <<CorruptJson>>} \cup {<<doc>> : doc \in YesterdaysFiles}
    /\ project_registry = EmptyDict
    /\ registry = EmptyDict
    /\ now = Day0
    /\ env = 0
    /\ known_projects = {}
    /\ dashboard_sync = << >>
    /\ update_queue = {}
    /\ pc = EmptyDict
    /\ ret = Ret("", "", TRUE, "", 0)
    /\ out = NoOut

LmStartsCommand ==
    \E action \in {"suggest", "move", "archive"} : LmConstruct(action)

\* --action suggest: the suggestions are printed; a KeyError raised by
\* suggest_lifecycle_actions is caught and printed by main()
MainSuggest ==
    /\ running("suggest")
    /\ \E order \in IdOrders(DOMAIN project_registry.projects) :
          LET result == suggest_lifecycle_actions(order, project_registry, dirs)
          IN ret' = Ret("suggest_lifecycle_actions", "", ~result.raised,
                        IF result.raised THEN "KeyError" ELSE "",
                        Len(result.suggestions))
    /\ out' = Exited("suggest", 0)
    /\ UNCHANGED <<dirs, now, env, registry_file, lmVars, dsVars>>

\* --action move --project P --stage S: main() prints the outcome and
\* returns
MainMove ==
    /\ running("move")
    /\ \E id \in ProjectNames, stage \in ConfirmedStages : move_project(id, stage)
    /\ out' = Exited("move", 0)
    /\ UNCHANGED dsVars

\* --action archive --project P
MainArchive ==
    /\ running("archive")
    /\ \E id \in ProjectNames : archive_project(id)
    /\ out' = Exited("archive", 0)
    /\ UNCHANGED dsVars

NextCli ==
    \/ LmStartsCommand
    \/ DsConstruct
    \/ MainSuggest
    \/ MainMove
    \/ MainArchive

SpecCli == InitCli /\ [][NextCli]_vars

\* ------------------------------------------ main(), --action execute --auto
\* The filter of the auto loop without its test of the action
auto_selects_by_priority(suggestion) ==
    suggestion.priority \in {"low", "medium"}

\* The filter of the auto loop: the suggestions it hands to
\* execute_lifecycle_action
auto_selects(suggestion) ==
    suggestion.priority \in {"low", "medium"} /\ suggestion.action # "review_cleanup"

AutoPlacements ==
    {<<"base", "should_be_active">>, <<"base", "should_be_archived">>,
     <<"active", "active">>, <<"archive", "archived">>}
AutoInactiveDays == {20, 45}

\* out inside the auto loop: the suggestions still to be looked at, those
\* handed to execute_lifecycle_action and those passed over
InLoop(todo, passed, skipped) ==
    [fn |-> "auto", value |-> [todo |-> todo, passed |-> passed, skipped |-> skipped]]

\* The manager is constructed on a registry it wrote earlier
InitAuto ==
    /\ \E ids \in SUBSET ProjectNames :
          \E projects \in [ids -> {Record(id, placement, days, size) :
                                      id \in ProjectNames, placement \in AutoPlacements,
                                      days \in AutoInactiveDays, size \in SizesMb}],
             there \in SUBSET ids :
             /\ \A id \in ids : projects[id].id = id
             /\ project_registry = [default_project_registry EXCEPT !.projects = projects]
             /\ dirs = [p \in {projects[id].path : id \in there} |->
                           [files |-> [f \in {"README.md"} |-> Day0],
                            mtime |-> Day0, size_mb |-> 1]]
    /\ registry_file = <<project_registry>>
    /\ now = Day0
    /\ env = 0
    /\ registry = EmptyDict
    /\ known_projects = {}
    /\ dashboard_sync = << >>
    /\ update_queue = {}
    /\ pc = EmptyDict
    /\ ret = Ret("load_project_registry", "", TRUE, "", 0)
    /\ out = Running("execute")

\* suggestions = manager.suggest_lifecycle_actions()
AutoSuggests ==
    /\ running("execute")
    /\ \E order \in IdOrders(DOMAIN project_registry.projects) :
          LET result == suggest_lifecycle_actions(order, project_registry, dirs)
          IN /\ ret' = Ret("suggest_lifecycle_actions", "", ~result.raised, "",
                           Len(result.suggestions))
             /\ out' = IF result.raised THEN Exited("execute", 0)
                       ELSE InLoop(result.suggestions, << >>, << >>)
    /\ UNCHANGED <<dirs, now, env, registry_file, lmVars, dsVars>>

\* One iteration of the auto loop over a suggestion the filter lets through
AutoExecutes ==
    /\ out.fn = "auto"
    /\ out.value.todo # << >>
    /\ LET suggestion == Head(out.value.todo)
       IN /\ auto_selects(suggestion)
          /\ execute_lifecycle_action(suggestion)
          /\ out' = InLoop(Tail(out.value.todo),
                           Append(out.value.passed, suggestion), out.value.skipped)
    /\ UNCHANGED dsVars

\* One iteration over a suggestion the filter holds back
AutoSkips ==
    /\ out.fn = "auto"
    /\ out.value.todo # << >>
    /\ LET suggestion == Head(out.value.todo)
       IN /\ ~auto_selects(suggestion)
          /\ ret' = Ret("main", suggestion.project, TRUE, "skipped", 0)
          /\ out' = InLoop(Tail(out.value.todo), out.value.passed,
                           Append(out.value.skipped, suggestion))
    /\ UNCHANGED <<dirs, now, env, registry_file, lmVars, dsVars>>

\* The loop is over: the count is printed and main() returns
AutoEnds ==
    /\ out.fn = "auto"
    /\ out.value.todo = << >>
    /\ ret' = Ret("main", "", TRUE, "auto-executed", Len(out.value.passed))
    /\ out' = Exited("execute", 0)
    /\ UNCHANGED <<dirs, now, env, registry_file, lmVars, dsVars>>

NextAuto ==
    \/ AutoSuggests
    \/ AutoExecutes
    \/ AutoSkips
    \/ AutoEnds

SpecAuto == InitAuto /\ [][NextAuto]_vars

\* ------------------------------------------- refreshing an enriched record
\* The fields collaborators add to a record
EnrichmentFields == {"title", "description", "priority", "phase", "tags", "personal_impact"}

\* A record after a collaborator enriched it in the registry file
Enriched(record) ==
    [title |-> "Foo for the client",
     description |-> "written by a collaborator",
     priority |-> "high",
     phase |-> "build",
     tags |-> <<"client">>,
     personal_impact |-> "high"] @@ record

\* What the project's CLAUDE.md and package.json may hold
ClaudeTexts ==
    {[title |-> << >>, tags |-> << >>],
     [title |-> <<"Foo">>, tags |-> << >>],
     [title |-> <<"Foo">>, tags |-> << <<"web">> >>]}
PackageFiles ==
    {[valid |-> FALSE, data |-> EmptyDict],
     [valid |-> TRUE, data |-> EmptyDict],
     [valid |-> TRUE, data |-> [name |-> "foo-pkg"]],
     [valid |-> TRUE, data |-> [name |-> "foo-pkg", description |-> "a package"]]}

\* The registry files with the enriched record of <base>/foo, first
\* written by the lifecycle manager or by the discovery service
EnrichedFiles ==
    {[default_project_registry EXCEPT
         !.projects = [id \in {"foo"} |->
                          Enriched(Record("foo", <<"base", "should_be_active">>, 1, 1))],
         !.last_updated = Day0 - 1],
     [default_registry EXCEPT
         !.projects = [id \in {"foo"} |->
                          Enriched([id |-> "foo", name |-> "foo", path |-> <<"base", "foo">>,
                                    discovered_at |-> Day0 - 1, type |-> "development-python",
                                    status |-> "discovered", last_modified |-> Day0 - 1])],
         !.last_updated = Day0 - 1]}

\* Both programs have loaded the registry file; <base>/foo is there
InitRefresh ==
    /\ \E names \in SUBSET {"CLAUDE.md", "package.json", "requirements.txt"},
          text \in ClaudeTexts, package \in PackageFiles :
          /\ "CLAUDE.md" \notin names => text = [title |-> << >>, tags |-> << >>]
          /\ "package.json" \notin names => package = [valid |-> FALSE, data |-> EmptyDict]
          /\ dirs = [p \in {<<"base", "foo">>} |->
                        [files |-> [f \in names |-> Day0],
                         mtime |-> Day0,
                         size_mb |-> 1,
                         contents |-> [f \in names \cap {"CLAUDE.md", "package.json"} |->
                                          IF f = "CLAUDE.md" THEN text ELSE package]]]
    /\ \E doc \in EnrichedFiles :
          /\ registry_file = <<doc>>
          /\ project_registry = doc
          /\ registry = doc
    /\ known_projects = {"foo"}
    /\ now = Day0
    /\ env = 0
    /\ dashboard_sync = << >>
    /\ update_queue = {}
    /\ pc = EmptyDict
    /\ ret = Ret("__init__", "", TRUE, "", 0)
    /\ out = NoOut

\* lifecycle-manager.py --action discover, the scan of the base directory
RefreshByDiscover ==
    /\ discover_projects("base")
    /\ UNCHANGED <<dsVars, out>>

\* on_modified for a file of a known project
QueueProjectUpdate ==
    /\ \E path \in DOMAIN dirs :
          /\ update_queue' = queue_project_update(path[2])
          /\ ret' = Ret("queue_project_update", path[2], path[2] \in known_projects, "", 0)
    /\ UNCHANGED <<dirs, now, env, registry_file, lmVars, registry, known_projects,
                   dashboard_sync, pc, out>>

\* The tick of the service
ProcessUpdateQueue ==
    /\ Len(dashboard_sync) < MaxSync
    /\ \E ids \in IdOrders(update_queue) : process_update_queue(ids)
    /\ UNCHANGED <<lmVars, pc, out>>

NextRefresh ==
    \/ RefreshByDiscover
    \/ QueueProjectUpdate
    \/ ProcessUpdateQueue

SpecRefresh == InitRefresh /\ [][NextRefresh]_vars

\* ------------------------------- the threads of the running discovery service
\* run_service: the main thread runs the periodic loop (tick), the observer
\* delivers the filesystem events, and every on_created starts a
\* threading.Timer whose thread calls check_new_project (timer; one at a
\* time here).  pc.tick.todo is the rest of list(self.update_queue),
\* pc.timer.path the argument of check_new_project.
NoPath == <<"", "">>
Sleeping == [at |-> "sleep", todo |-> << >>]
NoTimer == [at |-> "idle", path |-> NoPath]

\* The project the service knows when it starts
KnownAtStart == <<"active", "foo">>
DirAtStart ==
    [files |-> [f \in {"requirements.txt", "TODO.md"} |-> Day0], mtime |-> Day0, size_mb |-> 1]

ThreadRet(op, id) == Ret(op, id, TRUE, "", 0)

\* The service was constructed on a registry file that holds active/foo and
\* run_service has started the observer.
InitThreads ==
    /\ dirs = [p \in {KnownAtStart} |-> DirAtStart]
    /\ now = Day0
    /\ env = 0
    /\ LET d == [p \in {KnownAtStart} |-> DirAtStart]
           record == [id |-> "foo", name |-> "foo", path |-> KnownAtStart,
                      discovered_at |-> Day0, type |-> "development-python",
                      status |-> "active", last_modified |-> Day0]
           loaded == [default_registry EXCEPT !.projects = [id \in {"foo"} |-> record]]
       IN /\ registry = loaded
          /\ registry_file = <<loaded>>
    /\ known_projects = {"foo"}
    /\ project_registry = default_project_registry
    /\ dashboard_sync = << >>
    /\ update_queue = {}
    /\ pc = [tick |-> Sleeping, timer |-> NoTimer]
    /\ ret = Ret("__init__", "", TRUE, "", 0)
    /\ out = NoOut

\* The user creates a directory; on_created starts the timer for it
OnCreated ==
    /\ pc.timer.at = "idle"
    /\ \E parent \in {"base", "active"}, name \in Names, profile \in WatchedProfiles :
          /\ EnvCreate(<<parent, name>>, profile)
          /\ pc' = [pc EXCEPT !.timer = [at |-> "check", path |-> <<parent, name>>]]
    /\ UNCHANGED <<registry_file, lmVars, registry, known_projects, dashboard_sync,
                   update_queue, out>>

\* The user changes TODO.md (or another watched file) of a directory;
\* on_modified calls queue_project_update
OnModified ==
    /\ \E path \in DOMAIN dirs :
          /\ update_queue' = queue_project_update(path[2])
          /\ ret' = ThreadRet("queue_project_update", path[2])
    /\ UNCHANGED <<dirs, now, env, registry_file, lmVars, registry, known_projects,
                   dashboard_sync, pc, out>>

\* Timer thread, check_new_project up to the assignment into the registry
\* and known_projects.add (or up to its return False)
TimerRegisters ==
    /\ pc.timer.at = "check"
    /\ \E installed \in BOOLEAN :
          LET st == check_new_project(ds_state, pc.timer.path, installed)
          IN /\ dirs' = st.dirs
             /\ registry' = [registry EXCEPT !.projects = st.registry.projects]
             /\ known_projects' = st.known_projects
             /\ pc' = [pc EXCEPT !.timer = IF st.result THEN [@ EXCEPT !.at = "save"]
                                           ELSE NoTimer]
    /\ ret' = ThreadRet("check_new_project", pc.timer.path[2])
    /\ UNCHANGED <<now, env, registry_file, lmVars, dashboard_sync, update_queue, out>>

\* Timer thread, save_registry
TimerSaves ==
    /\ pc.timer.at = "save"
    /\ registry' = save_registry(registry)
    /\ registry_file' = <<registry'>>
    /\ pc' = [pc EXCEPT !.timer.at = "queue"]
    /\ ret' = ThreadRet("save_registry", pc.timer.path[2])
    /\ UNCHANGED <<dirs, now, env, lmVars, known_projects, dashboard_sync, update_queue, out>>

\* Timer thread, queue_dashboard_sync and return True
TimerQueuesSync ==
    /\ pc.timer.at = "queue"
    /\ dashboard_sync' = queue_dashboard_sync(dashboard_sync,
                                              registry.projects[pc.timer.path[2]])
    /\ pc' = [pc EXCEPT !.timer = NoTimer]
    /\ ret' = ThreadRet("queue_dashboard_sync", pc.timer.path[2])
    /\ UNCHANGED <<dirs, now, env, registry_file, lmVars, registry, known_projects,
                   update_queue, out>>

\* Tick thread, process_update_queue: the queue is not empty and
\* list(self.update_queue) is taken
TickSnapshots ==
    /\ pc.tick.at = "sleep"
    /\ update_queue # {}
    /\ Len(dashboard_sync) < MaxSync
    /\ \E order \in IdOrders(update_queue) :
          pc' = [pc EXCEPT !.tick = [at |-> "loop", todo |-> order]]
    /\ ret' = ThreadRet("process_update_queue", "")
    /\ UNCHANGED <<dirs, now, env, registry_file, lmVars, registry, known_projects,
                   dashboard_sync, update_queue, out>>

\* Tick thread, one iteration of the loop
TickRefreshes ==
    /\ pc.tick.at = "loop"
    /\ pc.tick.todo # << >>
    /\ LET st == refresh_one(ds_state, Head(pc.tick.todo))
       IN /\ registry' = st.registry
          /\ dashboard_sync' = st.dashboard_sync
    /\ pc' = [pc EXCEPT !.tick.todo = Tail(@)]
    /\ ret' = ThreadRet("refresh", Head(pc.tick.todo))
    /\ UNCHANGED <<dirs, now, env, registry_file, lmVars, known_projects, update_queue, out>>

\* Tick thread, self.update_queue.clear()
TickClears ==
    /\ pc.tick.at = "loop"
    /\ pc.tick.todo = << >>
    /\ update_queue' = {}
    /\ pc' = [pc EXCEPT !.tick.at = "save"]
    /\ ret' = ThreadRet("clear", "")
    /\ UNCHANGED <<dirs, now, env, registry_file, lmVars, registry, known_projects,
                   dashboard_sync, out>>

\* Tick thread, save_registry, then the sleep of run_service
TickSaves ==
    /\ pc.tick.at = "save"
    /\ registry' = save_registry(registry)
    /\ registry_file' = <<registry'>>
    /\ pc' = [pc EXCEPT !.tick = Sleeping]
    /\ ret' = ThreadRet("save_registry", "")
    /\ UNCHANGED <<dirs, now, env, lmVars, known_projects, dashboard_sync, update_queue, out>>

NextThreads ==
    \/ OnCreated
    \/ OnModified
    \/ TimerRegisters
    \/ TimerSaves
    \/ TimerQueuesSync
    \/ TickSnapshots
    \/ TickRefreshes
    \/ TickClears
    \/ TickSaves

SpecThreads == InitThreads /\ [][NextThreads]_vars

\* ----------------------------------------- the service and its modify events
\* The modify events the observer delivers: a file or a directory changed
\* inside a directory named foo, bar or src
ModifyEvents ==
    {[is_directory |-> is_directory, parent |-> parent, name |-> name] :
        is_directory \in BOOLEAN, parent \in ProjectNames \cup {"src"},
        name \in {"TODO.md", "main.py"}}

OnModifiedEvent ==
    /\ \E event \in ModifyEvents :
          /\ update_queue' = on_modified(event)
          /\ ret' = Ret("on_modified", event.parent, ~event.is_directory, event.name, 0)
    /\ UNCHANGED <<dirs, now, env, registry_file, lmVars, registry, known_projects,
                   dashboard_sync, pc, out>>

\* The service knows active/foo; the user may delete it,
\* the observer reports changes, the timer and the tick do their work
NextEvents ==
    \/ OnModifiedEvent
    \/ ProcessUpdateQueue
    \/ ServiceChecksNewProject
    \/ UserDeletes

SpecEvents == InitThreads /\ [][NextEvents]_vars

\* ------------------------------------------------- the tick, in one piece
\* The service registered active/foo and base/bar yesterday, each holding
\* README.md and .gitignore then; their files have changed since.
InitTick ==
    /\ dirs = [p \in {<<"active", "foo">>, <<"base", "bar">>} |->
                  [files |-> [f \in IF p[2] = "foo" THEN {"README.md", "requirements.txt"}
                                    ELSE {"README.md", "index.html"} |-> Day0],
                   mtime |-> Day0, size_mb |-> 1]]
    /\ LET record(path) ==
               [id |-> path[2], name |-> path[2], path |-> path,
                discovered_at |-> Day0 - 1, type |-> "general",
                status |-> quick_status(path), last_modified |-> Day0 - 1]
           loaded == [default_registry EXCEPT
                         !.projects = [id \in ProjectNames |->
                                          IF id = "foo" THEN record(<<"active", "foo">>)
                                          ELSE record(<<"base", "bar">>)],
                         !.last_updated = Day0 - 1]
       IN /\ registry = loaded
          /\ registry_file = <<loaded>>
    /\ known_projects = ProjectNames
    /\ project_registry = default_project_registry
    /\ now = Day0
    /\ env = 0
    /\ dashboard_sync = << >>
    /\ update_queue = {}
    /\ pc = EmptyDict
    /\ ret = Ret("__init__", "", TRUE, "", 0)
    /\ out = NoOut

NextTick ==
    \/ QueueProjectUpdate
    \/ ProcessUpdateQueue
    \/ UserDeletes

SpecTick == InitTick /\ [][NextTick]_vars

\* ------------------------------------------------- the observer of the service
\* pc.observer is self.observer: "None", "created" (Observer() assigned and
\* not started) or "started"; pc.threads counts the observer threads that
\* run; pc.at is where run_service stands.
Watching(at, observer, threads) == [at |-> at, observer |-> observer, threads |-> threads]

\* A fresh base directory; the service is constructed and monitors nothing
InitWatch ==
    /\ dirs = EmptyDict
    /\ now = Day0
    /\ env = 0
    /\ registry_file = << >>
    /\ project_registry = default_project_registry
    /\ registry = default_registry
    /\ known_projects = {}
    /\ dashboard_sync = << >>
    /\ update_queue = {}
    /\ pc = Watching("idle", "None", 0)
    /\ ret = Ret("__init__", "", TRUE, "", 0)
    /\ out = NoOut

\* start_monitoring: pc after the call and whether it returned.  With an
\* observer at hand it returns at once.  Otherwise self.observer is
\* assigned first; schedule() or start() may raise OSError (no inotify
\* watch left), and the call then ends without a running thread.
start_monitoring(raises) ==
    IF pc.observer # "None" THEN [pc |-> pc, ok |-> TRUE, why |-> "already started"]
    ELSE IF raises
    THEN [pc |-> [pc EXCEPT !.observer = "created"], ok |-> FALSE, why |-> "OSError"]
    ELSE [pc |-> [pc EXCEPT !.observer = "started", !.threads = @ + 1],
          ok |-> TRUE, why |-> "started"]

\* stop_monitoring: join() of an observer that was never started raises
\* RuntimeError before self.observer = None
stop_monitoring ==
    IF pc.observer = "None" THEN [pc |-> pc, ok |-> TRUE, why |-> "not monitoring"]
    ELSE IF pc.observer = "created"
    THEN [pc |-> pc, ok |-> FALSE, why |-> "RuntimeError"]
    ELSE [pc |-> [pc EXCEPT !.observer = "None", !.threads = @ - 1],
          ok |-> TRUE, why |-> "stopped"]

WatchFrame ==
    UNCHANGED <<dirs, now, env, registry_file, lmVars, registry, known_projects,
                dashboard_sync, update_queue, out>>

StartMonitoring ==
    /\ pc.at = "idle"
    /\ \E raises \in BOOLEAN :
          LET call == start_monitoring(raises)
          IN /\ pc' = call.pc
             /\ ret' = Ret("start_monitoring", "", call.ok, call.why, 0)
    /\ WatchFrame

StopMonitoring ==
    /\ pc.at = "idle"
    /\ pc' = stop_monitoring.pc
    /\ ret' = Ret("stop_monitoring", "", stop_monitoring.ok, stop_monitoring.why, 0)
    /\ WatchFrame

\* run_service up to its loop: start_monitoring is called before the try
\* statement, so an exception it raises, or a KeyboardInterrupt that arrives
\* when it has just started the observer, ends run_service without the
\* finally clause.
RunServiceStarts ==
    /\ pc.at = "idle"
    /\ \E raises \in BOOLEAN, interrupted \in BOOLEAN :
          LET call == start_monitoring(raises)
          IN IF call.ok /\ ~interrupted
             THEN /\ pc' = [call.pc EXCEPT !.at = "loop"]
                  /\ ret' = Ret("start_monitoring", "", TRUE, call.why, 0)
             ELSE /\ pc' = call.pc
                  /\ ret' = Ret("run_service", "", FALSE,
                                IF call.ok THEN "KeyboardInterrupt" ELSE call.why, 0)
    /\ WatchFrame

\* The process_update_queue call of one round of the loop of run_service
RunServiceTick ==
    /\ pc.at = "loop"
    /\ ProcessUpdateQueue

\* The observer reports a new directory while it runs
ObserverSeesCreated ==
    /\ pc.observer = "started"
    /\ ServiceChecksNewProject

\* The observer reports a changed file while it runs
ObserverSeesModified ==
    /\ pc.observer = "started"
    /\ QueueProjectUpdate

\* The loop is interrupted or raises: the finally clause calls
\* stop_monitoring
RunServiceEnds ==
    /\ pc.at = "loop"
    /\ \E why \in {"KeyboardInterrupt", "Exception"} :
          /\ pc' = [stop_monitoring.pc EXCEPT !.at = "idle"]
          /\ ret' = Ret("run_service", "", stop_monitoring.ok, why, 0)
    /\ WatchFrame

NextWatch ==
    \/ StartMonitoring
    \/ StopMonitoring
    \/ RunServiceStarts
    \/ RunServiceTick
    \/ ObserverSeesCreated
    \/ ObserverSeesModified
    \/ RunServiceEnds
    \/ UserCreatesWatched

SpecWatch == InitWatch /\ [][NextWatch]_vars

\* ------------------------------------------ move_project, statement by statement
\* The try block with the record written before the directory is moved
record_then_move == <<"record", "shutil.move", "save">>

\* The statements of the try block of move_project, in their order
move_steps == <<"shutil.move", "record", "save">>

\* pc between two calls of move_project
NotMoving ==
    [todo |-> << >>, id |-> "", stage |-> "", source |-> NoPath, target |-> NoPath,
     before |-> EmptyDict, tree |-> EmptyDict]

\* The manager is constructed on a registry it wrote earlier; directories
\* may be gone or may lie where a move would put them
\* (was names the place a tree lay at first, to tell the trees apart).
InitMoveSteps ==
    /\ \E ids \in SUBSET ProjectNames :
          \E projects \in [ids -> {Record(id, placement, 20, 1) :
                                      id \in ProjectNames, placement \in AutoPlacements}],
             there \in SUBSET ({<<"archive", "foo">>} \cup {<<"base", id>> : id \in ids}
                               \cup {<<"active", id>> : id \in ids}) :
             /\ \A id \in ids : projects[id].id = id
             /\ project_registry = [default_project_registry EXCEPT !.projects = projects]
             /\ dirs = [p \in there |->
                           [files |-> [f \in {"README.md"} |-> Day0],
                            mtime |-> Day0, size_mb |-> 1, was |-> p]]
    /\ registry_file = <<project_registry>>
    /\ now = Day0
    /\ env = 0
    /\ registry = EmptyDict
    /\ known_projects = {}
    /\ dashboard_sync = << >>
    /\ update_queue = {}
    /\ pc = NotMoving
    /\ ret = Ret("load_project_registry", "", TRUE, "", 0)
    /\ out = NoOut

\* move_project is called: the early returns, or the try block is entered
MoveCalled ==
    /\ pc.todo = << >>
    /\ \E project_id \in ProjectNames, target_stage \in StageArgs :
          LET early(why) ==
                  /\ ret' = Ret("move_project", project_id, FALSE, why, 0)
                  /\ pc' = NotMoving
          IN IF project_id \notin DOMAIN project_registry.projects
             THEN early("not found in registry")
             ELSE IF target_stage \notin DOMAIN target_dirs
             THEN early("invalid target stage")
             ELSE LET target_path == <<target_dirs[target_stage], project_id>>
                      current_path == project_registry.projects[project_id].path
                  IN IF target_path \in DOMAIN dirs
                     THEN early("target path already exists")
                     ELSE /\ pc' = [todo |-> move_steps, id |-> project_id,
                                    stage |-> target_stage, source |-> current_path,
                                    target |-> target_path,
                                    before |-> project_registry.projects,
                                    tree |-> IF current_path \in DOMAIN dirs
                                             THEN dirs[current_path] ELSE EmptyDict]
                          /\ ret' = Ret("move_project", project_id, FALSE, "called", 0)
    /\ UNCHANGED <<dirs, now, env, registry_file, lmVars, registry, known_projects,
                   dashboard_sync, update_queue, out>>

\* shutil.move: it raises when the source is gone, and may raise although
\* it is there; the except branch returns False
StepShutilMove ==
    /\ pc.todo # << >>
    /\ Head(pc.todo) = "shutil.move"
    /\ \/ /\ pc.source \in DOMAIN dirs
          /\ dirs' = [p \in (DOMAIN dirs \ {pc.source}) \cup {pc.target} |->
                         IF p = pc.target THEN dirs[pc.source] ELSE dirs[p]]
          /\ pc' = [pc EXCEPT !.todo = Tail(@)]
          /\ ret' = Ret("move_project", pc.id, FALSE, "moved", 0)
       \/ /\ pc' = [pc EXCEPT !.todo = << >>]
          /\ ret' = Ret("move_project", pc.id, FALSE, "failed to move", 0)
          /\ UNCHANGED dirs
    /\ UNCHANGED <<now, env, registry_file, lmVars, registry, known_projects,
                   dashboard_sync, update_queue, out>>

\* project_info['path'], ['lifecycle_stage'] and ['moved_at'] are assigned
StepRecord ==
    /\ pc.todo # << >>
    /\ Head(pc.todo) = "record"
    /\ project_registry' =
          [project_registry EXCEPT !.projects[pc.id] =
              dict_update(@, [path |-> pc.target,
                              lifecycle_stage |-> pc.stage,
                              moved_at |-> now])]
    /\ pc' = [pc EXCEPT !.todo = Tail(@)]
    /\ ret' = Ret("move_project", pc.id, FALSE, "recorded", 0)
    /\ UNCHANGED <<dirs, now, env, registry_file, registry, known_projects,
                   dashboard_sync, update_queue, out>>

\* save_project_registry, and return True
StepSave ==
    /\ pc.todo # << >>
    /\ Head(pc.todo) = "save"
    /\ LET saved == save_project_registry(project_registry)
       IN /\ project_registry' = saved
          /\ registry_file' = <<saved>>
    /\ pc' = [pc EXCEPT !.todo = Tail(@)]
    /\ ret' = Ret("move_project", pc.id, TRUE, pc.stage, 0)
    /\ UNCHANGED <<dirs, now, env, registry, known_projects,
                   dashboard_sync, update_queue, out>>

NextMoveSteps ==
    \/ MoveCalled
    \/ StepShutilMove
    \/ StepRecord
    \/ StepSave

SpecMoveSteps == InitMoveSteps /\ [][NextMoveSteps]_vars

\* ------------------------------------------- claims on the lifecycle manager
\* The records of project-registry.json
persisted == IF registry_file = << >> THEN EmptyDict ELSE registry_file[1].projects

\* C2: a call of move_project (directly, by archive_project or by
\* execute_lifecycle_action) that returns False leaves every record of the
\* registry, the registry file and the directories as they were.
C2_FailedMoveLeavesRegistry ==
    [][(ret'.op = "move_project" /\ ~ret'.ok) =>
           /\ project_registry' = project_registry
           /\ registry_file' = registry_file
           /\ dirs' = dirs]_vars

\* C2 witness: move_project has returned False because shutil.move raised on
\* a registered project whose directory has vanished.
C2_Witness ==
    /\ ret.op = "move_project" /\ ~ret.ok /\ ret.why = "failed to move"
    /\ ret.id \in DOMAIN project_registry.projects
    /\ project_registry.projects[ret.id].path \notin DOMAIN dirs

\* C3: every record whose lifecycle_stage is a confirmed stage has a path
\* directly under the matching lifecycle root.
C3_ConfirmedStageMatchesPath ==
    \A id \in DOMAIN project_registry.projects :
        LET r == project_registry.projects[id] IN
        r.lifecycle_stage \in ConfirmedStages =>
            r.path = <<target_dirs[r.lifecycle_stage], id>>

\* C3 witness: a project has been moved to the archive and another record
\* got its confirmed stage from discover_projects.
C3_Witness ==
    \E id, other \in DOMAIN project_registry.projects :
        /\ project_registry.projects[id].lifecycle_stage = "archived"
        /\ "moved_at" \in DOMAIN project_registry.projects[id]
        /\ id # other
        /\ project_registry.projects[other].lifecycle_stage \in ConfirmedStages
        /\ "moved_at" \notin DOMAIN project_registry.projects[other]

\* C4 as claimed: no persisted record has a should_be_* lifecycle_stage.
C4_NoShouldBePersisted ==
    \A id \in DOMAIN persisted : persisted[id].lifecycle_stage \notin ShouldBeStages

\* C4 amended: a should_be_* value is persisted only for a record whose path
\* lies outside the lifecycle roots (a project pending a move); a record
\* under a lifecycle root carries that root's confirmed stage.
C4_ShouldBeOnlyOutsideRoots ==
    \A id \in DOMAIN persisted :
        LET r == persisted[id] IN
        /\ r.lifecycle_stage \in ShouldBeStages => r.path[1] \notin Roots
        /\ r.path[1] \in Roots =>
               /\ r.lifecycle_stage \in ConfirmedStages
               /\ target_dirs[r.lifecycle_stage] = r.path[1]

\* C4 witness: discover_projects has persisted a should_be_* stage for a
\* directory of the base directory, and no record has ever been moved.
C4_Witness ==
    /\ ret.op = "discover_projects"
    /\ \E id \in DOMAIN persisted :
          /\ persisted[id].lifecycle_stage \in ShouldBeStages
          /\ persisted[id].path[1] = "base"
    /\ \E id \in DOMAIN persisted : persisted[id].path[1] \in Roots
    /\ \A id \in DOMAIN persisted : "moved_at" \notin DOMAIN persisted[id]

\* C5 as claimed: discover_projects leaves the lifecycle_stage and the path
\* of every record that holds a confirmed stage as they are.
C5_DiscoverKeepsConfirmedStage ==
    [][ret'.op = "discover_projects" =>
           \A id \in DOMAIN project_registry.projects :
               LET r == project_registry.projects[id] IN
               r.lifecycle_stage \in ConfirmedStages =>
                   /\ project_registry'.projects[id].lifecycle_stage = r.lifecycle_stage
                   /\ project_registry'.projects[id].path = r.path]_vars

\* ----------------------------------------- claims on the discovery service
\* C1: discover_all_projects run right after discover_all_projects, with no
\* change of the filesystem in between, returns 0 and leaves the registry's
\* project map and known_projects as the first run left them.
C1_SecondDiscoveryFindsNothing ==
    [][(ret.op = "discover_all_projects" /\ ret'.op = "discover_all_projects") =>
           /\ ret'.n = 0
           /\ registry'.projects = registry.projects
           /\ known_projects' = known_projects
           /\ registry_file' = registry_file]_vars

\* C1: a second run has returned, after a first run that had registered a
\* project whose directory is still there
C1_Witness ==
    /\ ret.op = "discover_all_projects"
    /\ ret.why = "repeated"
    /\ ret.n = 0
    /\ \E path \in DOMAIN dirs :
          /\ is_project_directory(dirs, path)
          /\ path[2] \in known_projects
          /\ path[2] \in DOMAIN registry.projects
          /\ registry.projects[path[2]].path = path

\* -------------------------------------------------- claims on the classifiers
\* The rule of the specification: two or more markers, or one strong marker
StrongMarkers == {"CLAUDE.md", "package.json", "requirements.txt"}
two_tier_rule(present) ==
    Cardinality(present \cap MarkerFiles) >= 2 \/ present \cap StrongMarkers # {}

\* C6: both is-a-project decisions - is_project_directory of the discovery
\* service and the record-or-None of the lifecycle manager's analyze_project -
\* accept a directory exactly when it holds two or more markers or a strong one.
C6_TwoTierRule ==
    \A path \in DOMAIN dirs :
        LET present == DOMAIN dirs[path].files IN
        /\ out.fn = "is_project_directory" => (out.value <=> two_tier_rule(present))
        /\ out.fn = "analyze_project" => ((out.value # EmptyDict) <=> two_tier_rule(present))

\* C7: a directory with CLAUDE.md and package.json gets the type
\* claude-project from analyze_project_quick and from classify_project_type
\* (the type field of analyze_project).
C7_ClaudeBeatsNode ==
    \A path \in DOMAIN dirs :
        (/\ {"CLAUDE.md", "package.json"} \subseteq DOMAIN dirs[path].files
         /\ out.fn \in {"analyze_project", "analyze_project_quick"})
        => out.value.type = "claude-project"

\* ----------------------------------------------- claims on the activity score
\* The files of a directory that were modified from lo to hi days ago
aged(files, lo, hi) ==
    Cardinality({f \in DOMAIN files : now - files[f] >= lo /\ now - files[f] <= hi})

\* C8: the activity score is the sum of the per-file weights (10 same-day, 5
\* within 7 days, 2 within 30, 1 within 90, else 0) over max(file count, 1),
\* lies in 0..10, is 10 when every file is same-day, and is 0 with a
\* divisor of 1 for a directory without files.
C8_ScoreInRange ==
    out.fn = "calculate_activity_score" =>
        \A path \in DOMAIN dirs :
            LET files == dirs[path].files
                s == out.value
                count == Cardinality(DOMAIN files)
            IN /\ s.den >= 1
               /\ s.den = IF count = 0 THEN 1 ELSE count
               /\ s.num = 10 * aged(files, 0, 0) + 5 * aged(files, 1, 7)
                          + 5 * aged(files, -1, -1)
                          + 2 * aged(files, 8, 30) + aged(files, 31, 90)
               /\ 0 <= s.num /\ s.num <= 10 * s.den
               /\ (count > 0 /\ aged(files, 0, 0) = count) => s.num = 10 * s.den
               /\ count = 0 => s.num = 0

\* C8: the score of a directory of several files, all modified today, has
\* been computed
C8_Witness ==
    /\ out.fn = "calculate_activity_score"
    /\ \E path \in DOMAIN dirs :
          /\ Cardinality(DOMAIN dirs[path].files) >= 2
          /\ \A f \in DOMAIN dirs[path].files : dirs[path].files[f] = now
    /\ out.value.num = 10 * out.value.den

\* -------------------------------------------------- claims on the suggestions
\* The suggestions made for one project, and those of one kind
suggested(id) ==
    SelectSeq(out.value.suggestions, LAMBDA sg : sg.project = id)
suggested_as(id, kind) ==
    SelectSeq(out.value.suggestions, LAMBDA sg : sg.project = id /\ sg.action = kind)

\* C9: a registry entry whose path does not exist gets exactly one
\* suggestion, remove_registry_entry with priority high, whatever its stage,
\* age or size.
C9_MissingPathOnlyRemoval ==
    out.fn = "suggest_lifecycle_actions" =>
        /\ ~out.value.raised
        /\ \A id \in DOMAIN project_registry.projects :
              project_registry.projects[id].path \notin DOMAIN dirs =>
                  /\ Len(suggested(id)) = 1
                  /\ suggested(id)[1].action = "remove_registry_entry"
                  /\ suggested(id)[1].priority = "high"

\* C9: suggestions were made for a registry whose first entry is a large,
\* long inactive should_be_* project without a directory, and whose other
\* entry has its directory
C9_Witness ==
    /\ out.fn = "suggest_lifecycle_actions"
    /\ DOMAIN project_registry.projects = {"foo", "bar"}
    /\ LET foo == project_registry.projects["foo"]
           bar == project_registry.projects["bar"]
       IN /\ foo.path \notin DOMAIN dirs
          /\ foo.lifecycle_stage = "should_be_active"
          /\ now - foo.last_modified = 45
          /\ foo.size_mb > LargeProjectMb
          /\ bar.path \in DOMAIN dirs
          /\ bar.size_mb > LargeProjectMb
    /\ out.value.suggestions[1].project = "foo"
    /\ Len(suggested("foo")) = 1
    /\ Len(suggested("bar")) >= 1

\* C10: an entry whose path exists gets an auto_archive suggestion, of
\* priority low, exactly when the days since last_modified exceed the
\* configured auto_archive_days and its stage is neither archived nor system.
C10_AutoArchiveIffOverdue ==
    out.fn = "suggest_lifecycle_actions" =>
        /\ ~out.value.raised
        /\ \A id \in DOMAIN project_registry.projects :
              LET r == project_registry.projects[id]
                  overdue == /\ now - r.last_modified >
                                    project_registry.settings.auto_archive_days
                             /\ r.lifecycle_stage \notin {"archived", "system"}
                  made == suggested_as(id, "auto_archive")
              IN r.path \in DOMAIN dirs =>
                    /\ Len(made) = (IF overdue THEN 1 ELSE 0)
                    /\ \A i \in 1..Len(made) : made[i].priority = "low"

\* C10: with the default threshold of 30 days, suggestions were made for an
\* active project last modified 45 days ago, which got an auto_archive, and
\* for an active one last modified 20 days ago, which got none
C10_Witness ==
    /\ out.fn = "suggest_lifecycle_actions"
    /\ project_registry.settings.auto_archive_days = 30
    /\ DOMAIN project_registry.projects = {"foo", "bar"}
    /\ \A id \in {"foo", "bar"} :
          /\ project_registry.projects[id].lifecycle_stage = "active"
          /\ project_registry.projects[id].path \in DOMAIN dirs
    /\ now - project_registry.projects["foo"].last_modified = 45
    /\ now - project_registry.projects["bar"].last_modified = 20
    /\ Len(suggested_as("foo", "auto_archive")) = 1
    /\ Len(suggested_as("bar", "auto_archive")) = 0

\* ------------------------------------- more claims on the discovery service
\* C11: discovery (check_new_project for active/foo, or discover_all_projects)
\* of a directory active/foo that holds only requirements.txt and whose name
\* is no registry id yet registers the record foo with the type
\* development-python and the lifecycle_stage active.
C11_RegistersActivePython ==
    [][(/\ ret'.op \in {"check_new_project", "discover_all_projects"}
        /\ ret'.op = "check_new_project" => (ret'.id = "foo" /\ ret'.why = "active")
        /\ <<"active", "foo">> \in DOMAIN dirs
        /\ DOMAIN dirs[<<"active", "foo">>].files = {"requirements.txt"}
        /\ "foo" \notin DOMAIN registry.projects)
       => /\ "foo" \in DOMAIN registry'.projects
          /\ registry'.projects["foo"].type = "development-python"
          /\ "lifecycle_stage" \in DOMAIN registry'.projects["foo"]
          /\ registry'.projects["foo"].lifecycle_stage = "active"]_vars

\* ------------------------------------------------ claims on the shared file
\* C12: an id leaves the persisted registry only by the execution of a
\* remove_registry_entry action for it; no scan, move or save of either
\* program drops an entry.
C12_OnlyRemovalDropsIds ==
    [][\A id \in DOMAIN persisted :
           \/ id \in DOMAIN persisted'
           \/ /\ ret'.op = "execute_lifecycle_action"
              /\ ret'.id = id
              /\ ret'.why = "remove_registry_entry"]_vars

\* ------------------------------------------------------ claims on the threads
\* A thread is between its first change of the registry and the end of its
\* save_registry
writes_registry(thread) ==
    IF thread = "tick" THEN pc.tick.at \in {"loop", "save"}
    ELSE pc.timer.at = "save"

\* C13: the registry is changed and written on the tick path only, so the
\* tick thread and the thread of a create event are never both in the
\* middle of changing or writing the registry.
C13_OneRegistryWriter ==
    ~(writes_registry("tick") /\ writes_registry("timer"))

\* --------------------------------------------------------------------- C14
\* C14: a load of the registry whose file is missing or is not valid JSON
\* succeeds, leaves the program with a registry without projects, and
\* leaves that default registry in the registry file.
C14_LoadFallsBackToSavedDefault ==
    [][(/\ ret'.op \in {"load_registry", "load_project_registry"}
        /\ \/ registry_file = << >>
           \/ registry_file[1] = CorruptJson)
       => /\ ret'.ok
          /\ IF ret'.op = "load_registry"
             THEN registry'.projects = EmptyDict
             ELSE project_registry'.projects = EmptyDict
          /\ registry_file' # << >>
          /\ registry_file'[1] # CorruptJson
          /\ registry_file'[1].projects = EmptyDict]_vars

\* --------------------------------------------------------------------- C15
\* C15: neither step of the suggest command (constructing the manager,
\* calling suggest_lifecycle_actions) changes the registry file or the
\* directories, and the call leaves the in-memory registry as loaded.
C15_SuggestMutatesNothing ==
    [][(\/ out'.fn = "ProjectLifecycleManager" /\ out'.value = "suggest"
        \/ out'.fn = "main" /\ out'.value.action = "suggest")
       => /\ registry_file' = registry_file
          /\ dirs' = dirs
          /\ running("suggest") => project_registry' = project_registry]_vars

\* --------------------------------------------------------------------- C17
\* C17: when a move or archive command is over, its exit status is 0
\* exactly if move_project returned True.
C17_ExitStatusTellsOutcome ==
    (out.fn = "main" /\ out.value.action \in {"move", "archive"})
        => (out.value.exit = 0 <=> (ret.op = "move_project" /\ ret.ok))

\* --------------------------------------------------------------------- C16
\* C16: every suggestion the auto loop hands to execute_lifecycle_action is
\* a move_project or an auto_archive suggestion.
C16_AutoExecutesOnlyMoves ==
    out.fn = "auto" =>
        \A i \in 1..Len(out.value.passed) :
            out.value.passed[i].action \in {"move_project", "auto_archive"}

\* The auto loop is through a list holding a review_cleanup and a
\* remove_registry_entry suggestion, and has executed another one
C16_Witness ==
    /\ out.fn = "auto"
    /\ out.value.todo = << >>
    /\ out.value.passed # << >>
    /\ \E i, j \in 1..Len(out.value.skipped) :
          /\ out.value.skipped[i].action = "review_cleanup"
          /\ out.value.skipped[j].action = "remove_registry_entry"

\* --------------------------------------------------------------------- C18
\* C18: a refresh of an existing record, by discover_projects or by
\* process_update_queue, leaves every enrichment field of the record there
\* with the value it had.
C18_RefreshKeepsEnrichment ==
    [][/\ ret'.op = "discover_projects" =>
            \A id \in DOMAIN project_registry.projects :
                \A k \in EnrichmentFields \cap DOMAIN project_registry.projects[id] :
                    /\ id \in DOMAIN project_registry'.projects
                    /\ k \in DOMAIN project_registry'.projects[id]
                    /\ project_registry'.projects[id][k] = project_registry.projects[id][k]
       /\ ret'.op = "process_update_queue" =>
            \A id \in DOMAIN registry.projects :
                \A k \in EnrichmentFields \cap DOMAIN registry.projects[id] :
                    /\ id \in DOMAIN registry'.projects
                    /\ k \in DOMAIN registry'.projects[id]
                    /\ registry'.projects[id][k] = registry.projects[id][k]]_vars

\* --------------------------------------------------------------------- C19
\* C19: check_new_project for a directory named like an id of the registry
\* returns False and leaves the registry, known_projects, the registry
\* file and the dashboard sync queue as they were; a full scan leaves
\* every record it found in the registry as it was and queues no dashboard
\* sync for it.
C19_KnownIdIsNoOp ==
    [][/\ (ret'.op = "check_new_project" /\ ret'.id \in DOMAIN registry.projects)
          => /\ ~ret'.ok
             /\ registry' = registry
             /\ known_projects' = known_projects
             /\ registry_file' = registry_file
             /\ dashboard_sync' = dashboard_sync
       /\ ret'.op = "discover_all_projects"
          => \A id \in DOMAIN registry.projects :
                /\ id \in DOMAIN registry'.projects
                /\ registry'.projects[id] = registry.projects[id]
                /\ \A i \in (Len(dashboard_sync) + 1)..Len(dashboard_sync') :
                       dashboard_sync'[i].project_id # id]_vars

\* check_new_project has returned False for a project directory named like
\* a registered id and lying elsewhere than the record says
C19_Witness ==
    /\ ret.op = "check_new_project"
    /\ ~ret.ok
    /\ ret.id \in DOMAIN registry.projects
    /\ <<ret.why, ret.id>> \in DOMAIN dirs
    /\ is_project_directory(dirs, <<ret.why, ret.id>>)
    /\ registry.projects[ret.id].path # <<ret.why, ret.id>>

\* --------------------------------------------------------------------- C20
\* The directory the call found at the record's path now lies at the
\* target path and no longer at the source
relocated ==
    /\ pc.target \in DOMAIN dirs
    /\ pc.source \notin DOMAIN dirs
    /\ dirs[pc.target] = pc.tree

\* C20: during and after a call of move_project the registry's records
\* differ from those at the call only once the directory is relocated, and
\* then only the record of the moved project differs, in path,
\* lifecycle_stage and moved_at; a call that returned True has relocated
\* the directory and recorded the target path and the requested stage.
C20_MoveThenRecord ==
    pc.id # "" =>
        /\ project_registry.projects # pc.before =>
              /\ relocated
              /\ project_registry.projects =
                    [pc.before EXCEPT ![pc.id] =
                        dict_update(@, [path |-> pc.target,
                                        lifecycle_stage |-> pc.stage,
                                        moved_at |-> now])]
        /\ (ret.ok /\ pc.todo = << >>) =>
              /\ relocated
              /\ project_registry.projects[pc.id].path = pc.target
              /\ project_registry.projects[pc.id].lifecycle_stage = pc.stage
              /\ project_registry.projects[pc.id].moved_at = now
              /\ persisted = project_registry.projects

\* move_project has returned True for one of two registered projects
C20_Witness ==
    /\ pc.id # ""
    /\ pc.todo = << >>
    /\ ret.op = "move_project"
    /\ ret.ok
    /\ pc.source # pc.target
    /\ Cardinality(DOMAIN project_registry.projects) = 2
    /\ project_registry.projects[pc.id].path = pc.target

\* --------------------------------------------------------------------- C21
\* C21: under a parent named active, staging, archive or systems the stage
\* is active, staging, archived or system whatever the files; elsewhere it
\* is should_be_active for a score above 5, should_be_staging for a score
\* above 1 and at most 5, should_be_archived otherwise.
C21_LocationThenScore ==
    out.fn = "determine_lifecycle_stage" =>
        \A path \in DOMAIN dirs :
            LET files == dirs[path].files
                count == IF DOMAIN files = {} THEN 1 ELSE Cardinality(DOMAIN files)
                total == 10 * aged(files, 0, 0) + 5 * aged(files, 1, 7)
                         + 2 * aged(files, 8, 30) + aged(files, 31, 90)
            IN out.value =
                  CASE path[1] = "active" -> "active"
                    [] path[1] = "staging" -> "staging"
                    [] path[1] = "archive" -> "archived"
                    [] path[1] = "systems" -> "system"
                    [] OTHER -> IF total > 5 * count THEN "should_be_active"
                                ELSE IF total > count THEN "should_be_staging"
                                ELSE "should_be_archived"

\* The stage of a directory under the base directory whose score is
\* exactly 5.0 has been determined
C21_Witness ==
    /\ out.fn = "determine_lifecycle_stage"
    /\ out.value = "should_be_staging"
    /\ \E path \in DOMAIN dirs :
          /\ path[1] = "base"
          /\ DOMAIN dirs[path].files # {}
          /\ \A f \in DOMAIN dirs[path].files : now - dirs[path].files[f] = 1

\* --------------------------------------------------------------------- C22
\* The rules of the cascade in their order, each with whether it matches
cascade(name, files) ==
    <<[hit |-> "CLAUDE.md" \in files, type |-> "claude-project"],
      [hit |-> "package.json" \in files, type |-> "development-nodejs"],
      [hit |-> "requirements.txt" \in files, type |-> "development-python"],
      [hit |-> "index.html" \in files, type |-> "web-project"],
      [hit |-> "data.csv" \in files, type |-> "data-analysis"],
      [hit |-> name = "webbot", type |-> "automation"]>>

\* C22: the type analyze_project_quick assigns is that of the first rule
\* of the cascade that matches; when none matches it is development-python
\* if the .py files outnumber the .js files, general exactly if there are
\* neither .py nor .js files, and development-web otherwise.
C22_FirstRuleWins ==
    out.fn = "analyze_project_quick" =>
        LET name == out.value.id
            files == DOMAIN dirs[out.value.path].files
            rules == cascade(name, files)
            hits == {i \in 1..Len(rules) : rules[i].hit}
            py == Cardinality(files \cap {"main.py", "scraper.py"})
            js == Cardinality(files \cap {"app.js"})
        IN IF hits # {}
           THEN \E i \in hits : /\ \A j \in hits : i <= j
                                /\ out.value.type = rules[i].type
           ELSE /\ py > js => out.value.type = "development-python"
                /\ (js > 0 /\ js >= py) => out.value.type = "development-web"
                /\ out.value.type = "general" <=> (py = 0 /\ js = 0)

\* A directory holding a marker of each of the first five rules has been
\* analysed
C22_Witness ==
    /\ out.fn = "analyze_project_quick"
    /\ out.value.type = "claude-project"
    /\ {"CLAUDE.md", "package.json", "requirements.txt", "index.html", "data.csv"}
          \subseteq DOMAIN dirs[out.value.path].files

\* --------------------------------------------------------------------- C23
\* C23: no directory whose name starts with a dot or is in the skip-set is
\* taken for a project by is_project_directory, and none is in the
\* registry of either program or in the registry file.
C23_HiddenNeverRegistered ==
    \A name \in DotNames \cup skip_dirs :
        /\ name \notin DOMAIN registry.projects
        /\ name \notin DOMAIN project_registry.projects
        /\ name \notin DOMAIN persisted
        /\ out.fn = "is_project_directory" =>
              \A path \in DOMAIN dirs : path[2] = name => ~out.value

\* --------------------------------------------------------------------- C24
\* C24: an entry whose path exists and whose stage is should_be_X gets
\* exactly one move_project suggestion, of priority medium, to X, a stage
\* move_project has a directory for; an entry with another stage gets none.
C24_OneMoveToImpliedStage ==
    out.fn = "suggest_lifecycle_actions" =>
        \A id \in DOMAIN project_registry.projects :
            LET r == project_registry.projects[id]
                made == suggested_as(id, "move_project")
                implied == CASE r.lifecycle_stage = "should_be_active" -> "active"
                             [] r.lifecycle_stage = "should_be_staging" -> "staging"
                             [] r.lifecycle_stage = "should_be_archived" -> "archived"
                             [] OTHER -> ""
            IN r.path \in DOMAIN dirs =>
                  IF implied # ""
                  THEN /\ Len(made) = 1
                       /\ made[1].priority = "medium"
                       /\ made[1].to = implied
                       /\ made[1].to \in DOMAIN target_dirs
                       /\ made[1].from = r.path
                  ELSE Len(made) = 0

\* Suggestions were made for a large, long inactive should_be_staging
\* project and for an active one, both with their directories
C24_Witness ==
    /\ out.fn = "suggest_lifecycle_actions"
    /\ DOMAIN project_registry.projects = {"foo", "bar"}
    /\ LET foo == project_registry.projects["foo"]
           bar == project_registry.projects["bar"]
       IN /\ foo.path \in DOMAIN dirs
          /\ bar.path \in DOMAIN dirs
          /\ foo.lifecycle_stage = "should_be_staging"
          /\ now - foo.last_modified = 45
          /\ foo.size_mb > LargeProjectMb
          /\ bar.lifecycle_stage = "active"
    /\ Len(suggested("foo")) = 3
    /\ Len(suggested_as("foo", "move_project")) = 1
    /\ Len(suggested_as("bar", "move_project")) = 0

\* --------------------------------------------------------------------- C25
\* C25: a modify event leaves the registry, the registry file,
\* known_projects, the dashboard sync queue and the directories alone; it
\* adds the name of the file's directory to update_queue when the file is
\* CLAUDE.md, TODO.md, package.json or requirements.txt and that name is a
\* known id, and leaves update_queue alone otherwise; update_queue holds
\* known ids only.
C25_ModifyOnlyQueuesKnownIds ==
    [][/\ ret'.op = "on_modified" =>
            /\ registry' = registry
            /\ registry_file' = registry_file
            /\ known_projects' = known_projects
            /\ dashboard_sync' = dashboard_sync
            /\ dirs' = dirs
            /\ update_queue' =
                  IF /\ ret'.ok
                     /\ ret'.why \in {"CLAUDE.md", "TODO.md", "package.json", "requirements.txt"}
                     /\ ret'.id \in known_projects
                  THEN update_queue \cup {ret'.id}
                  ELSE update_queue
       /\ update_queue' \subseteq known_projects']_vars

\* TODO.md of a registered project was reported modified and the project
\* is queued, its record being as analysed at registration
C25_Witness ==
    /\ ret.op = "on_modified"
    /\ ret.ok
    /\ ret.why = "TODO.md"
    /\ ret.id \in known_projects
    /\ update_queue = {ret.id}
    /\ "last_updated" \notin DOMAIN registry.projects[ret.id]

\* --------------------------------------------------------------------- C26
\* The ids a tick refreshes: queued, registered, their path still there
refreshed_ids ==
    {id \in update_queue \cap DOMAIN registry.projects :
        registry.projects[id].path \in DOMAIN dirs}

C27_StoppedOrWatching ==
    /\ \/ pc.observer = "None" /\ pc.threads = 0
       \/ pc.observer = "started" /\ pc.threads = 1
    /\ ret.op = "run_service" => pc.observer = "None"

\* --------------------------------------------------------------------- C28
\* C28: no dirty mark is lost.  Every id that self.update_queue.clear()
\* takes out of update_queue has been reclassified by process_update_queue:
\* its record carries the last_updated that only the loop of
\* process_update_queue writes.
C28_NoDirtyMarkLost ==
    [][ret'.op = "clear" =>
          \A id \in update_queue \ update_queue' :
             /\ id \in DOMAIN registry.projects
             /\ "last_updated" \in DOMAIN registry.projects[id]]_vars

\* --------------------------------------------------------------------- C29
\* C29: the suggestions of one auto pass never hold both a move_project and
\* an auto_archive for the same project.
C29_MoveOrArchiveNotBoth ==
    out.fn = "auto" =>
        LET all == out.value.todo \o out.value.passed \o out.value.skipped
        IN \A i, j \in 1..Len(all) :
              ~ /\ all[i].project = all[j].project
                /\ all[i].action = "move_project"
                /\ all[j].action = "auto_archive"

\* --------------------------------------------------------------------- C30
\* C30: on a registry file the discovery service wrote (the document of
\* load_registry with the records of check_new_project),
\* suggest_lifecycle_actions of the lifecycle manager completes without
\* raising.
C30_SuggestCompletesOnServiceFile ==
    (/\ ret.op = "suggest_lifecycle_actions"
     /\ "discovery_settings" \in DOMAIN project_registry) => ret.ok

====
